---- MODULE Spec2Model ----
(***************************************************************************)
(* Single-slot model supervisor of llama-cpp-server:                       *)
(*   ModelProxyManager / ModelProxy (src/model_proxy.py),                  *)
(*   ModelWorker (src/model_worker.py), Request/Response                   *)
(*   (src/ipc_protocol.py).                                                *)
(*                                                                         *)
(* Gateway threads run the supervisor and Proxy operations; every action   *)
(* is the code between two blocking points (lock acquisition, join, poll). *)
(* A worker child process is a separate sequential process that talks to   *)
(* its Proxy over a pair of FIFO channels (the two directions of the       *)
(* multiprocessing.Pipe).                                                  *)
(*                                                                         *)
(* Environment assumptions: SIGKILL (Process.kill) ends the child within   *)
(* the following join; SIGTERM (Process.terminate) may or may not end it   *)
(* within its join; a poll() timeout can fire whenever the channel is      *)
(* empty and the child is running.                                         *)
(***************************************************************************)
EXTENDS Integers, Sequences, FiniteSets, TLC

\* ---------------------------------------------------------------- bounds
MaxReq     == 3      \* Request records ever constructed (ids 1..MaxReq)
MaxChunks  == 2      \* outputs one llm(stream=True) generator can produce

IdleTimeout == 0                 \* config["model_manager"]["idle_timeout"], in clock ticks

Names   == {"A", "B"}            \* logical model names (registry keys)
\* names of .gguf files that can be in the models directory
Files   == {"A.gguf", "B.gguf", "A.gguf.gguf"}
Threads == {"t1", "t2"}          \* gateway threads (HTTP handlers, idle reaper)
NoName  == "None"                \* Python None for a model name
NoThread == "None"               \* an unheld threading.Lock
ProxyIds == 1..MaxReq            \* every Proxy constructed sends one LOAD request

VARIABLES
    \* ModelProxyManager
    models,          \* keys of self.models
    default_model,   \* self.default_model
    active_proxy,    \* self.active_proxy (0 = None, else a Proxy id)
    active_model,    \* self.active_model
    loading,         \* self.loading
    mlock,           \* holder of ModelProxyManager.lock
    cfgDefault,      \* stem of self.config["model_manager"].get("default_model")
    settings,        \* the load settings of self.config: "model_manager" and "model_settings"
    \* models directory on disk
    dirExists, dirFiles,
    \* ModelProxy objects, by id
    nextProxy,       \* number of Proxy objects constructed so far + 1
    pname,           \* Proxy.model_name
    pprocess,        \* Proxy.process is not None
    pconn,           \* Proxy.conn is not None
    plock,           \* holder of Proxy.lock
    idle_time,       \* time.time() - Proxy.last_used, saturated at IdleTimeout + 1,
                     \* of the Proxy in the slot (nothing reads last_used of another)
    stopSet,         \* Proxy.stop_event.is_set()
    \* worker child process of each Proxy
    wstate,          \* "unborn" | "running" | "exited"
    llm,             \* ModelWorker.llm is not None
    lparams,         \* arguments the Llama in ModelWorker.llm was constructed with
    wpc,             \* "recv": in run(), blocked in conn.recv(); "stream": in _handle_stream,
                     \* asking the generator for its next output; "pulled": holding that
                     \* output, about to look at the stop_event
    stopped,         \* local `stopped` of the last _handle_stream the worker ran
    wcur,            \* id of the GENERATE_STREAM request being handled (0 = none)
    wn,              \* CHUNKs sent for it so far
    inbox,           \* requests in flight gateway -> worker
    outbox,          \* responses in flight worker -> gateway
    \* gateway threads
    pc,              \* position of the thread in the operation it runs
    arg,             \* model_name argument of the supervisor operation
    cont,            \* supervisor operation that called Proxy.shutdown
    ref,             \* Proxy the thread got from get_model (0 = none)
    cmd,             \* command of the Proxy operation the thread runs
    req,             \* id of the request that operation sent
    yielded,         \* CHUNK payload the stream iterator is suspended at (0 = none)
    listing,         \* models_list of the list_models call the thread is in
    ret,             \* the operation that returned in the last step, and its outcome
    nextId           \* next fresh Request id (uuid4)

supVars  == <<models, default_model, active_proxy, active_model, loading, mlock, cfgDefault,
             settings>>
dirVars  == <<dirExists, dirFiles>>
proxVars == <<nextProxy, pname, pprocess, pconn, plock, idle_time, stopSet>>
workVars == <<wstate, llm, lparams, wpc, stopped, wcur, wn, inbox, outbox>>
thrVars  == <<pc, arg, cont, ref, cmd, req, yielded, listing>>
vars == <<supVars, dirVars, proxVars, workVars, thrVars, ret, nextId>>

\* ------------------------------------------------------------ ipc_protocol
\* an empty dict
EmptyDict == [k \in {} |-> "None"]
\* d.get(k, dflt)
Get(d, k, dflt) == IF k \in DOMAIN d THEN d[k] ELSE dflt

\* the arguments of no Llama instance (ModelWorker.llm is None)
NoParams == EmptyDict

\* Request(command=c): the payload defaults to an empty dict
Request(id, c) == [id |-> id, cmd |-> c, payload |-> EmptyDict]
\* Request(command=Command.LOAD, payload=pl)
LoadRequest(id, pl) == [id |-> id, cmd |-> "LOAD", payload |-> pl]
\* payload: k is the index of a CHUNK's text in its stream, st the status,
\* finish_reason or error text of the other responses
Response(id, ty, k, st) == [id |-> id, type |-> ty, k |-> k, st |-> st]

\* outcome records of finished operations
NoRet == [t |-> NoThread, op |-> "none", res |-> "none", val |-> NoName]
Ret(op, res, val) == [t |-> NoThread, op |-> op, res |-> res, val |-> val]

\* the thread's operation ends with outcome r and the thread goes on at l
ReturnAt(t, r, l) ==
    /\ pc' = [pc EXCEPT ![t] = l]
    /\ ret' = [r EXCEPT !.t = t]
    /\ arg' = [arg EXCEPT ![t] = NoName]
    /\ cont' = [cont EXCEPT ![t] = "none"]
    /\ cmd' = [cmd EXCEPT ![t] = "none"]
    /\ req' = [req EXCEPT ![t] = 0]
    /\ yielded' = [yielded EXCEPT ![t] = 0]
    /\ listing' = [listing EXCEPT ![t] = <<>>]

Return(t, r) == ReturnAt(t, r, "idle")

\* the thread moves on to position l of its operation
Goto(t, l) ==
    /\ pc' = [pc EXCEPT ![t] = l]
    /\ ret' = NoRet

\* ------------------------------------------------------------ ModelProxy
\* the keyword arguments of Llama(...) that come from the configuration
LoadKeys == {"n_ctx", "n_gpu_layers", "n_threads", "override_tensor", "offload_kqv"}

\* _send_load_command: the payload of the LOAD request for model `name`, from
\* config["model_manager"] (mm) overlaid with config["model_settings"][name]
LoadPayload(name) ==
    LET mm == settings.mm
        model_settings == Get(settings.ms, name, EmptyDict)
        over(k, dflt) == IF k \in DOMAIN model_settings THEN model_settings[k] ELSE dflt
    IN [model_path   |-> name,
        n_ctx        |-> over("n_ctx", mm["n_ctx"]),
        n_gpu_layers |-> over("n_gpu_layers", mm["n_gpu_layers"]),
        n_threads    |-> over("n_threads", Get(mm, "n_threads", "8"))]

\* is_alive altered: the child's state is not polled
is_alive_HandleOnly(p) == pprocess[p]

is_alive(p) == pprocess[p] /\ wstate[p] = "running"

\* sorted(gguf_files)[0]: the first file stem in alphabetical order
FirstName(S) == IF "A" \in S THEN "A" ELSE IF "B" \in S THEN "B" ELSE NoName

\* _discover_models: the registry and default it leaves, from the registry and
\* default it finds (it returns early, changing nothing, on a missing or empty
\* directory)
\* filename.replace('.gguf', ''): every occurrence of ".gguf" is removed from
\* the file name
Stem(f) ==
    CASE f = "A.gguf" -> "A"
      [] f = "B.gguf" -> "B"
      [] f = "A.gguf.gguf" -> "A"

DiscoveredModels(old) ==
    IF dirExists /\ dirFiles # {} THEN old \cup {Stem(f) : f \in dirFiles} ELSE old
DiscoveredDefault(old, cfg) ==
    IF dirExists /\ dirFiles # {}
        THEN (IF cfg # NoName THEN cfg ELSE FirstName(DiscoveredModels({})))
        ELSE old

\* a configuration: global n_ctx, n_gpu_layers and n_threads, and an n_ctx of
\* its own for model "A"
DefaultSettings ==
    [mm |-> [n_ctx |-> "g", n_gpu_layers |-> "g", n_threads |-> "g"],
     ms |-> [n \in {"A"} |-> [n_ctx |-> "a"]]]

\* the configurations a gateway is started with: config["model_manager"] has
\* n_ctx and n_gpu_layers, or every load key; config["model_settings"] has for
\* "A" one of four subsets of the load keys and for "B" nothing or every key
SettingsSet ==
    {[mm |-> [k \in gk |-> "g"],
      ms |-> [n \in bn \cup {"A"} |-> [k \in (IF n = "A" THEN ak ELSE LoadKeys) |-> n]]] :
        gk \in {{"n_ctx", "n_gpu_layers"}, LoadKeys},
        ak \in {{}, {"n_ctx"}, {"n_threads", "offload_kqv"}, LoadKeys},
        bn \in {{}, {"B"}}}

\* the state after ModelProxyManager(config) with load settings s
InitState(s) ==
    /\ dirExists = TRUE
    /\ dirFiles = {"A.gguf", "B.gguf"}
    /\ cfgDefault = NoName
    /\ settings = s
    \* ModelProxyManager.__init__
    /\ models = DiscoveredModels({})
    /\ default_model = DiscoveredDefault(NoName, cfgDefault)
    /\ active_proxy = 0 /\ active_model = NoName /\ loading = FALSE /\ mlock = NoThread
    /\ nextProxy = 1
    /\ pname = [p \in ProxyIds |-> NoName]
    /\ pprocess = [p \in ProxyIds |-> FALSE]
    /\ pconn = [p \in ProxyIds |-> FALSE]
    /\ plock = [p \in ProxyIds |-> NoThread]
    /\ idle_time = [p \in ProxyIds |-> 0]
    /\ stopSet = [p \in ProxyIds |-> FALSE]
    /\ wstate = [p \in ProxyIds |-> "unborn"]
    /\ llm = [p \in ProxyIds |-> FALSE]
    /\ lparams = [p \in ProxyIds |-> NoParams]
    /\ wpc = [p \in ProxyIds |-> "recv"]
    /\ stopped = [p \in ProxyIds |-> FALSE]
    /\ wcur = [p \in ProxyIds |-> 0]
    /\ wn = [p \in ProxyIds |-> 0]
    /\ inbox = [p \in ProxyIds |-> <<>>]
    /\ outbox = [p \in ProxyIds |-> <<>>]
    /\ pc = [t \in Threads |-> "idle"]
    /\ arg = [t \in Threads |-> NoName]
    /\ cont = [t \in Threads |-> "none"]
    /\ ref = [t \in Threads |-> 0]
    /\ cmd = [t \in Threads |-> "none"]
    /\ req = [t \in Threads |-> 0]
    /\ yielded = [t \in Threads |-> 0]
    /\ listing = [t \in Threads |-> <<>>]
    /\ ret = NoRet
    /\ nextId = 1

Init == InitState(DefaultSettings)

\* a gateway started with any of the configurations of SettingsSet
InitLoad == \E s \in SettingsSet : InitState(s)



\* ------------------------------------------------- worker process exit
\* the child process ends: its model handle, its position and the requests
\* it has not received go with it; responses already written stay readable
WorkerExit(p) ==
    /\ wstate' = [wstate EXCEPT ![p] = "exited"]
    /\ llm' = [llm EXCEPT ![p] = FALSE]
    /\ lparams' = [lparams EXCEPT ![p] = NoParams]
    /\ wpc' = [wpc EXCEPT ![p] = "recv"]
    /\ stopped' = [stopped EXCEPT ![p] = FALSE]
    /\ wcur' = [wcur EXCEPT ![p] = 0]
    /\ wn' = [wn EXCEPT ![p] = 0]
    /\ inbox' = [inbox EXCEPT ![p] = <<>>]

\* a Proxy whose child has exited leaves the ActiveSlot: nothing reads its
\* model_name, last_used or stop_event again, so field f of it goes back to
\* v, the value it has in a Proxy that was never constructed
Retired(f, p, v) == IF p # 0 /\ wstate[p] # "running" THEN [f EXCEPT ![p] = v] ELSE f

RetireActive ==
    /\ pname' = Retired(pname, active_proxy, NoName)
    /\ stopSet' = Retired(stopSet, active_proxy, FALSE)
    /\ idle_time' = Retired(idle_time, active_proxy, 0)

\* ------------------------------------------------- ModelProxy.shutdown
\* shutdown() returns to the supervisor operation that called it; `how` is the
\* path it took, as its log tells: "no_process" (early return), "dead" (child
\* found dead, nothing sent), "graceful" (child exited within the first join),
\* "terminated" (within the join after terminate()), "killed" (after kill())
ShutdownReturns(t, how) ==
    /\ pc' = [pc EXCEPT ![t] = "sd_done"]
    /\ ret' = [t |-> t, op |-> "shutdown", res |-> how, val |-> NoName]

\* process = None; conn = None (the last two assignments of shutdown); the
\* responses left unread on the dropped connection are lost
ClearHandles(p) ==
    /\ pprocess' = [pprocess EXCEPT ![p] = FALSE]
    /\ pconn' = [pconn EXCEPT ![p] = FALSE]
    /\ outbox' = [outbox EXCEPT ![p] = <<>>]

\* shutdown altered: no `if self.process is None: return`; on a Proxy without
\* a process `self.process.is_alive()` raises out of the supervisor operation
Shutdown_Begin_NoGuard(t) ==
    /\ pc[t] = "shutdown"
    /\ LET p == active_proxy IN
       IF ~pprocess[p]
       THEN /\ Return(t, Ret(cont[t], "AttributeError", NoName))
            /\ mlock' = NoThread
            /\ UNCHANGED <<pprocess, pconn, inbox, outbox, nextId>>
       ELSE IF wstate[p] = "running" /\ pconn[p]
       THEN /\ inbox' = [inbox EXCEPT ![p] = Append(@, Request(nextId, "SHUTDOWN"))]
            /\ nextId' = nextId + 1
            /\ Goto(t, "sd_join1")
            /\ UNCHANGED <<pprocess, pconn, outbox, mlock, arg, cont, cmd, req, yielded, listing>>
       ELSE /\ ClearHandles(p)
            /\ ShutdownReturns(t, "dead")
            /\ UNCHANGED <<inbox, nextId, mlock, arg, cont, cmd, req, yielded, listing>>
    /\ UNCHANGED <<models, default_model, active_proxy, active_model, loading, cfgDefault, settings,
                   dirVars, nextProxy, pname, plock, idle_time, stopSet,
                   wstate, llm, lparams, wpc, stopped, wcur, wn, ref>>

\* shutdown altered: it takes the Proxy's lock, as the operations on the Proxy
\* do, before it looks at the process
Shutdown_Begin_LockProxy(t) ==
    /\ pc[t] = "shutdown"
    /\ plock[active_proxy] = NoThread
    /\ LET p == active_proxy IN
       IF ~pprocess[p]
       THEN /\ ShutdownReturns(t, "no_process")
            /\ UNCHANGED <<pprocess, pconn, inbox, outbox, nextId>>
       ELSE IF wstate[p] = "running" /\ pconn[p]
       THEN /\ inbox' = [inbox EXCEPT ![p] = Append(@, Request(nextId, "SHUTDOWN"))]
            /\ nextId' = nextId + 1
            /\ Goto(t, "sd_join1")
            /\ UNCHANGED <<pprocess, pconn, outbox>>
       ELSE /\ ClearHandles(p)
            /\ ShutdownReturns(t, "dead")
            /\ UNCHANGED <<inbox, nextId>>
    /\ UNCHANGED <<supVars, dirVars, nextProxy, pname, plock, idle_time, stopSet,
                   wstate, llm, lparams, wpc, stopped, wcur, wn,
                   arg, cont, ref, cmd, req, yielded, listing>>

\* shutdown() up to its first join: return at once on a Proxy without a process;
\* send SHUTDOWN to a running child and join; skip everything for a dead child.
\* t holds the supervisor mutex, the Proxy is the one in the ActiveSlot.
Shutdown_Begin(t) ==
    /\ pc[t] = "shutdown"
    /\ LET p == active_proxy IN
       IF ~pprocess[p]
       THEN /\ ShutdownReturns(t, "no_process")
            /\ UNCHANGED <<pprocess, pconn, inbox, outbox, nextId>>
       ELSE IF wstate[p] = "running" /\ pconn[p]
       THEN /\ inbox' = [inbox EXCEPT ![p] = Append(@, Request(nextId, "SHUTDOWN"))]
            /\ nextId' = nextId + 1
            /\ Goto(t, "sd_join1")
            /\ UNCHANGED <<pprocess, pconn, outbox>>
       ELSE /\ ClearHandles(p)
            /\ ShutdownReturns(t, "dead")
            /\ UNCHANGED <<inbox, nextId>>
    /\ UNCHANGED <<supVars, dirVars, nextProxy, pname, plock, idle_time, stopSet,
                   wstate, llm, lparams, wpc, stopped, wcur, wn,
                   arg, cont, ref, cmd, req, yielded, listing>>

\* join(timeout=5) returns: the child has exited, or it is still alive and
\* shutdown terminates it (SIGTERM) and joins again
Shutdown_Join1(t) ==
    /\ pc[t] = "sd_join1"
    /\ LET p == active_proxy IN
       \/ /\ wstate[p] = "exited"
          /\ ClearHandles(p)
          /\ ShutdownReturns(t, "graceful")
          /\ UNCHANGED <<wstate, llm, lparams, wpc, stopped, wcur, wn, inbox>>
       \/ /\ wstate[p] = "running"
          /\ \/ WorkerExit(p)
             \/ UNCHANGED <<wstate, llm, lparams, wpc, stopped, wcur, wn, inbox>>
          /\ Goto(t, "sd_join2")
          /\ UNCHANGED <<pprocess, pconn, outbox>>
    /\ UNCHANGED <<supVars, dirVars, nextProxy, pname, plock, idle_time, stopSet,
                   arg, cont, ref, cmd, req, yielded, listing, nextId>>

\* shutdown altered: no kill() of a child that survived terminate(); the
\* handles are cleared while it runs
Shutdown_Join2_NoKill(t) ==
    /\ pc[t] = "sd_join2"
    /\ LET p == active_proxy IN
       /\ ShutdownReturns(t, IF wstate[p] = "running" THEN "killed" ELSE "terminated")
       /\ ClearHandles(p)
    /\ UNCHANGED <<wstate, llm, lparams, wpc, stopped, wcur, wn, inbox>>
    /\ UNCHANGED <<supVars, dirVars, nextProxy, pname, plock, idle_time, stopSet,
                   arg, cont, ref, cmd, req, yielded, listing, nextId>>

\* join(timeout=2) returns: a child still alive is killed (SIGKILL) and joined;
\* then the handles are cleared
Shutdown_Join2(t) ==
    /\ pc[t] = "sd_join2"
    /\ LET p == active_proxy IN
       /\ IF wstate[p] = "running"
          THEN WorkerExit(p) /\ ShutdownReturns(t, "killed")
          ELSE /\ UNCHANGED <<wstate, llm, lparams, wpc, stopped, wcur, wn, inbox>>
               /\ ShutdownReturns(t, "terminated")
       /\ ClearHandles(p)
    /\ UNCHANGED <<supVars, dirVars, nextProxy, pname, plock, idle_time, stopSet,
                   arg, cont, ref, cmd, req, yielded, listing, nextId>>

\* get_model altered: no lookup of the name in the registry before the mutex
GetModel_Check_NoLookup(t, n) ==
    /\ pc[t] = "idle"
    /\ Goto(t, "gm_lock")
    /\ arg' = [arg EXCEPT ![t] = IF n = NoName THEN default_model ELSE n]
    /\ UNCHANGED <<cont, cmd, req, yielded, listing>>
    /\ UNCHANGED <<supVars, dirVars, proxVars, workVars, ref, nextId>>

\* ------------------------------------------- ModelProxyManager.get_model
\* resolve the name and look it up in the registry, before taking the mutex
GetModel_Check(t, n) ==
    /\ pc[t] = "idle"
    /\ LET name == IF n = NoName THEN default_model ELSE n IN
       IF name \notin models
       THEN /\ Return(t, Ret("get_model", "ValueError", NoName))
       ELSE /\ Goto(t, "gm_lock")
            /\ arg' = [arg EXCEPT ![t] = name]
            /\ UNCHANGED <<cont, cmd, req, yielded, listing>>
    /\ UNCHANGED <<supVars, dirVars, proxVars, workVars, ref, nextId>>

\* get_model without `self.active_proxy.shutdown()`: the active Proxy is
\* replaced while its child runs
GetModel_Enter_NoShutdown(t) ==
    /\ pc[t] = "gm_lock"
    /\ mlock = NoThread
    /\ IF active_model = arg[t] /\ active_proxy # 0 /\ is_alive(active_proxy)
       THEN /\ idle_time' = [idle_time EXCEPT ![active_proxy] = 0]
            /\ ref' = [ref EXCEPT ![t] = active_proxy]
            /\ ReturnAt(t, Ret("get_model", "ok", NoName), "have")
            /\ UNCHANGED <<mlock, cont>>
       ELSE /\ mlock' = t
            /\ cont' = [cont EXCEPT ![t] = "get_model"]
            /\ Goto(t, "sd_done")
            /\ UNCHANGED <<idle_time, ref, arg, cmd, req, yielded, listing>>
    /\ UNCHANGED <<models, default_model, active_proxy, active_model, loading, cfgDefault, settings,
                   dirVars, nextProxy, pname, pprocess, pconn, plock, stopSet,
                   workVars, nextId>>

\* get_model altered: the fast path does not set last_used
GetModel_Enter_NoRefresh(t) ==
    /\ pc[t] = "gm_lock"
    /\ mlock = NoThread
    /\ IF active_model = arg[t] /\ active_proxy # 0 /\ is_alive(active_proxy)
       THEN /\ ref' = [ref EXCEPT ![t] = active_proxy]
            /\ ReturnAt(t, Ret("get_model", "ok", NoName), "have")
            /\ UNCHANGED <<mlock, idle_time>>
       ELSE /\ mlock' = t
            /\ cont' = [cont EXCEPT ![t] = "get_model"]
            /\ Goto(t, IF active_proxy # 0 THEN "shutdown" ELSE "sd_done")
            /\ UNCHANGED <<idle_time, ref, arg, cmd, req, yielded, listing>>
    /\ UNCHANGED <<models, default_model, active_proxy, active_model, loading, cfgDefault, settings,
                   dirVars, nextProxy, pname, pprocess, pconn, plock, stopSet,
                   workVars, nextId>>

\* with self.lock: return the live active Proxy of that model, or go on to
\* shut the active Proxy down
GetModel_Enter(t) ==
    /\ pc[t] = "gm_lock"
    /\ mlock = NoThread
    /\ IF active_model = arg[t] /\ active_proxy # 0 /\ is_alive(active_proxy)
       THEN /\ idle_time' = [idle_time EXCEPT ![active_proxy] = 0]
            /\ ref' = [ref EXCEPT ![t] = active_proxy]
            /\ ReturnAt(t, Ret("get_model", "ok", NoName), "have")
            /\ UNCHANGED mlock
       ELSE /\ mlock' = t
            /\ cont' = [cont EXCEPT ![t] = "get_model"]
            /\ Goto(t, IF active_proxy # 0 THEN "shutdown" ELSE "sd_done")
            /\ UNCHANGED <<idle_time, ref, arg, cmd, req, yielded, listing>>
    /\ UNCHANGED <<models, default_model, active_proxy, active_model, loading, cfgDefault, settings,
                   dirVars, nextProxy, pname, pprocess, pconn, plock, stopSet,
                   workVars, nextId>>

\* model_info = self.models[model_name]; construct the Proxy, install it in
\* active_proxy, loading = True, start(): spawn the child and send LOAD
GetModel_Start(t) ==
    /\ pc[t] = "sd_done" /\ cont[t] = "get_model"
    /\ IF arg[t] \notin models
       THEN /\ Return(t, Ret("get_model", "KeyError", NoName))
            /\ mlock' = NoThread
            /\ UNCHANGED <<active_proxy, loading, nextProxy, pname, pprocess, pconn, stopSet,
                           idle_time, wstate, inbox, nextId>>
       ELSE /\ nextProxy <= MaxReq /\ nextId <= MaxReq
            /\ LET np == nextProxy IN
               /\ nextProxy' = np + 1
               /\ pname' = [Retired(pname, active_proxy, NoName) EXCEPT ![np] = arg[t]]
               /\ active_proxy' = np
               /\ loading' = TRUE
               /\ pprocess' = [pprocess EXCEPT ![np] = TRUE]
               /\ pconn' = [pconn EXCEPT ![np] = TRUE]
               /\ stopSet' = [Retired(stopSet, active_proxy, FALSE) EXCEPT ![np] = FALSE]
               /\ idle_time' = [Retired(idle_time, active_proxy, 0) EXCEPT ![np] = IdleTimeout + 1]
               /\ wstate' = [wstate EXCEPT ![np] = "running"]
               /\ inbox' = [inbox EXCEPT ![np] = <<LoadRequest(nextId, LoadPayload(arg[t]))>>]
            /\ req' = [req EXCEPT ![t] = nextId]
            /\ nextId' = nextId + 1
            /\ Goto(t, "gm_load")
            /\ UNCHANGED <<mlock, arg, cont, cmd, yielded, listing>>
    /\ UNCHANGED <<models, default_model, active_model, cfgDefault, settings, dirVars, plock,
                   llm, lparams, wpc, stopped, wcur, wn, outbox, ref>>

\* _send_load_command's poll(timeout=120)/recv, then the rest of start() and of
\* get_model: on a response that is not ERROR, last_used = now, active_model =
\* name, return the Proxy; on ERROR, timeout or end-of-stream the exception
\* leaves through `finally: self.loading = False` and releases the mutex
GetModel_Load(t) ==
    /\ pc[t] = "gm_load"
    /\ LET p == active_proxy IN
       \/ /\ outbox[p] # <<>>
          /\ outbox' = [outbox EXCEPT ![p] = Tail(@)]
          /\ IF Head(outbox[p]).type = "ERROR"
             THEN /\ Return(t, Ret("get_model", "RuntimeError", NoName))
                  /\ UNCHANGED <<active_model, idle_time, ref>>
             ELSE /\ idle_time' = [idle_time EXCEPT ![p] = 0]
                  /\ active_model' = arg[t]
                  /\ ref' = [ref EXCEPT ![t] = p]
                  /\ ReturnAt(t, Ret("get_model", "ok", NoName), "have")
       \/ /\ outbox[p] = <<>>
          /\ Return(t, Ret("get_model",
                           IF wstate[p] = "running" THEN "TimeoutError" ELSE "EOFError", NoName))
          /\ UNCHANGED <<outbox, active_model, idle_time, ref>>
    /\ loading' = FALSE
    /\ mlock' = NoThread
    /\ UNCHANGED <<models, default_model, active_proxy, cfgDefault, settings, dirVars,
                   nextProxy, pname, pprocess, pconn, plock, stopSet,
                   wstate, llm, lparams, wpc, stopped, wcur, wn, inbox, nextId>>

\* ----------------------------------------- ModelProxyManager.unload_model
\* unload_model altered: the name given is not compared with active_model
UnloadModel_Enter_AnyName(t, n) ==
    /\ pc[t] = "idle"
    /\ mlock = NoThread
    /\ IF active_proxy # 0
       THEN /\ mlock' = t
            /\ cont' = [cont EXCEPT ![t] = "unload_model"]
            /\ Goto(t, "shutdown")
            /\ UNCHANGED <<arg, cmd, req, yielded, listing>>
       ELSE /\ Return(t, Ret("unload_model", "False", NoName))
            /\ UNCHANGED mlock
    /\ UNCHANGED <<models, default_model, active_proxy, active_model, loading, cfgDefault, settings,
                   dirVars, proxVars, workVars, ref, nextId>>

UnloadModel_Enter(t, n) ==
    /\ pc[t] = "idle"
    /\ mlock = NoThread
    /\ IF n # NoName /\ n # active_model
       THEN /\ Return(t, Ret("unload_model", "False", NoName))
            /\ UNCHANGED mlock
       ELSE IF active_proxy # 0
       THEN /\ mlock' = t
            /\ cont' = [cont EXCEPT ![t] = "unload_model"]
            /\ Goto(t, "shutdown")
            /\ UNCHANGED <<arg, cmd, req, yielded, listing>>
       ELSE /\ Return(t, Ret("unload_model", "False", NoName))
            /\ UNCHANGED mlock
    /\ UNCHANGED <<models, default_model, active_proxy, active_model, loading, cfgDefault, settings,
                   dirVars, proxVars, workVars, ref, nextId>>

\* after self.active_proxy.shutdown(): empty the slot, return True
UnloadModel_Finish(t) ==
    /\ pc[t] = "sd_done" /\ cont[t] = "unload_model"
    /\ active_proxy' = 0
    /\ active_model' = NoName
    /\ mlock' = NoThread
    /\ Return(t, Ret("unload_model", "True", NoName))
    /\ RetireActive
    /\ UNCHANGED <<models, default_model, loading, cfgDefault, settings, dirVars,
                   nextProxy, pprocess, pconn, plock, workVars, ref, nextId>>

\* ------------------------------------ ModelProxyManager.unload_idle_models
UnloadIdle_Enter(t) ==
    /\ pc[t] = "idle"
    /\ mlock = NoThread
    /\ IF active_proxy # 0 /\ idle_time[active_proxy] > IdleTimeout
       THEN /\ mlock' = t
            /\ cont' = [cont EXCEPT ![t] = "unload_idle_models"]
            /\ Goto(t, "shutdown")
            /\ UNCHANGED <<arg, cmd, req, yielded, listing>>
       ELSE /\ Return(t, Ret("unload_idle_models", "[]", NoName))
            /\ UNCHANGED mlock
    /\ UNCHANGED <<models, default_model, active_proxy, active_model, loading, cfgDefault, settings,
                   dirVars, proxVars, workVars, ref, nextId>>

\* after self.active_proxy.shutdown(): empty the slot, return [model_name]
UnloadIdle_Finish(t) ==
    /\ pc[t] = "sd_done" /\ cont[t] = "unload_idle_models"
    /\ active_proxy' = 0
    /\ active_model' = NoName
    /\ mlock' = NoThread
    /\ Return(t, Ret("unload_idle_models", "[name]", active_model))
    /\ RetireActive
    /\ UNCHANGED <<models, default_model, loading, cfgDefault, settings, dirVars,
                   nextProxy, pprocess, pconn, plock, workVars, ref, nextId>>

\* monitor_idle_models altered: no try/except around the tick; an exception of
\* unload_idle_models ends the reaper thread
UnloadIdle_Raise_Fatal(t) ==
    /\ pc[t] = "shutdown" /\ cont[t] = "unload_idle_models"
    /\ mlock' = NoThread
    /\ ReturnAt(t, Ret("unload_idle_models", "raised", NoName), "gone")
    /\ UNCHANGED <<models, default_model, active_proxy, active_model, loading, cfgDefault,
                   settings, dirVars, proxVars, workVars, ref, nextId>>

\* an exception escapes unload_idle_models from its call of shutdown() (an
\* OSError of Process.terminate, say): `with self.lock` releases the mutex, the
\* slot is not emptied, and monitor_idle_models logs it and goes on to its next
\* tick
UnloadIdle_Raise(t) ==
    /\ pc[t] = "shutdown" /\ cont[t] = "unload_idle_models"
    /\ mlock' = NoThread
    /\ Return(t, Ret("unload_idle_models", "raised", NoName))
    /\ UNCHANGED <<models, default_model, active_proxy, active_model, loading, cfgDefault,
                   settings, dirVars, proxVars, workVars, ref, nextId>>

\* stop_generation altered: the Proxy's stop_generation() takes the Proxy's
\* lock before it sets the stop_event
StopGeneration_LockProxy(t) ==
    /\ pc[t] = "idle"
    /\ mlock = NoThread
    /\ IF active_proxy # 0
       THEN /\ plock[active_proxy] = NoThread
            /\ stopSet' = [stopSet EXCEPT ![active_proxy] = TRUE]
            /\ Return(t, Ret("stop_generation", "True", NoName))
       ELSE /\ Return(t, Ret("stop_generation", "False", NoName))
            /\ UNCHANGED stopSet
    /\ UNCHANGED <<supVars, dirVars, nextProxy, pname, pprocess, pconn, plock, idle_time,
                   workVars, ref, nextId>>

\* ------------------------------------- ModelProxyManager.stop_generation
\* with self.lock: forward to the active Proxy's stop_generation(), which sets
\* the stop_event without taking the Proxy's lock
StopGeneration(t) ==
    /\ pc[t] = "idle"
    /\ mlock = NoThread
    /\ IF active_proxy # 0
       THEN /\ stopSet' = [stopSet EXCEPT ![active_proxy] = TRUE]
            /\ Return(t, Ret("stop_generation", "True", NoName))
       ELSE /\ Return(t, Ret("stop_generation", "False", NoName))
            /\ UNCHANGED stopSet
    /\ UNCHANGED <<supVars, dirVars, nextProxy, pname, pprocess, pconn, plock, idle_time,
                   workVars, ref, nextId>>

\* --------------------------------------- ModelProxyManager.update_config
\* c is the default_model stem of new_config
UpdateConfig_Enter(t, c) ==
    /\ pc[t] = "idle"
    /\ mlock = NoThread
    /\ mlock' = t
    /\ cont' = [cont EXCEPT ![t] = "update_config"]
    /\ arg' = [arg EXCEPT ![t] = c]
    /\ Goto(t, IF active_proxy # 0 THEN "shutdown" ELSE "sd_done")
    /\ UNCHANGED <<models, default_model, active_proxy, active_model, loading, cfgDefault, settings,
                   dirVars, proxVars, workVars, ref, cmd, req, yielded, listing, nextId>>

\* empty the slot (when a Proxy was shut down), self.config = new_config,
\* self.models.clear()
UpdateConfig_Clear(t) ==
    /\ pc[t] = "sd_done" /\ cont[t] = "update_config"
    /\ active_proxy' = 0
    /\ active_model' = IF active_proxy # 0 THEN NoName ELSE active_model
    /\ cfgDefault' = arg[t]
    /\ settings' = settings
    /\ models' = {}
    /\ Goto(t, "uc_discover")
    /\ RetireActive
    /\ UNCHANGED <<default_model, loading, mlock, dirVars,
                   nextProxy, pprocess, pconn, plock, workVars,
                   arg, cont, ref, cmd, req, yielded, listing, nextId>>

\* self._discover_models(), then the mutex is released
UpdateConfig_Discover(t) ==
    /\ pc[t] = "uc_discover"
    /\ models' = DiscoveredModels(models)
    /\ default_model' = DiscoveredDefault(default_model, cfgDefault)
    /\ mlock' = NoThread
    /\ Return(t, Ret("update_config", "ok", NoName))
    /\ UNCHANGED <<active_proxy, active_model, loading, cfgDefault, settings, dirVars, proxVars, workVars,
                   ref, nextId>>

\* ------------------------------------------ ModelProxyManager.list_models
\* the entry of registry key n in models_list: "loaded" is
\* model_name == self.active_model, read when the entry is made
Entry(n) == [id |-> n, loaded |-> (n = active_model)]

\* list_models one turn of its loop at a time, as it runs beside other threads:
\* the entry of the next key of self.models is appended, or, with no key left,
\* models_list is returned (get_model_status has the same loop)
ListModels_Step(t) ==
    /\ pc[t] \in {"idle", "lm_loop"}
    /\ LET n == Len(listing[t])
           rest == models \ {listing[t][i].id : i \in 1..n}
       IN IF rest = {}
          THEN Return(t, Ret("list_models", "ok", {listing[t][i] : i \in 1..n}))
          ELSE /\ listing' = [listing EXCEPT ![t] = Append(@, Entry(FirstName(rest)))]
               /\ Goto(t, "lm_loop")
               /\ UNCHANGED <<arg, cont, cmd, req, yielded>>
    /\ UNCHANGED <<supVars, dirVars, proxVars, workVars, ref, nextId>>

\* the entries of self.models, read without the mutex (get_model_status
\* reads them the same way)
ListModels(t) ==
    /\ pc[t] = "idle"
    /\ Return(t, Ret("list_models", "ok", {Entry(n) : n \in models}))
    /\ UNCHANGED <<supVars, dirVars, proxVars, workVars, ref, nextId>>


\* ------------------------- ModelProxy.generate / generate_stream / tokenize
ProxyCmds == {"GENERATE", "GENERATE_STREAM", "TOKENIZE"}

\* with self.lock: is_alive() or raise; (generate_stream: clear_stop();)
\* last_used = now; conn.send(request)
Op_Begin(t, c) ==
    /\ pc[t] = "have"
    /\ LET p == ref[t] IN
       /\ plock[p] = NoThread
       /\ IF ~is_alive(p)
          THEN /\ Return(t, Ret(c, "NotRunning", NoName))
               /\ ref' = [ref EXCEPT ![t] = 0]
               /\ UNCHANGED <<plock, stopSet, idle_time, inbox, nextId>>
          ELSE /\ nextId <= MaxReq
               /\ plock' = [plock EXCEPT ![p] = t]
               /\ stopSet' = [stopSet EXCEPT ![p] = IF c = "GENERATE_STREAM" THEN FALSE ELSE @]
               /\ idle_time' = [idle_time EXCEPT ![p] = IF p = active_proxy THEN 0 ELSE @]
               /\ inbox' = [inbox EXCEPT ![p] = Append(@, Request(nextId, c))]
               /\ req' = [req EXCEPT ![t] = nextId]
               /\ cmd' = [cmd EXCEPT ![t] = c]
               /\ nextId' = nextId + 1
               /\ Goto(t, "op_wait")
               /\ UNCHANGED <<arg, cont, yielded, listing, ref>>
    /\ UNCHANGED <<supVars, dirVars, nextProxy, pname, pprocess, pconn,
                   wstate, llm, lparams, wpc, stopped, wcur, wn, outbox>>

\* Op_End altered: the operation ends without leaving the `with self.lock`
\* block
Op_End_KeepLock(t, res) ==
    /\ UNCHANGED plock
    /\ ref' = [ref EXCEPT ![t] = 0]
    /\ Return(t, Ret(cmd[t], res, NoName))

\* the operation ends with outcome res: the `with self.lock` block is left,
\* and the request handler that held the Proxy is over
Op_End(t, res) ==
    /\ plock' = [plock EXCEPT ![ref[t]] = NoThread]
    /\ ref' = [ref EXCEPT ![t] = 0]
    /\ Return(t, Ret(cmd[t], res, NoName))

\* conn.poll(timeout)/conn.recv() of generate and tokenize, and of one turn
\* of generate_stream's loop (entered at first, or resumed after a yield)
Op_Recv(t) ==
    /\ pc[t] \in {"op_wait", "st_yield"}
    /\ LET p == ref[t] IN
       IF ~pconn[p]
       THEN \* self.conn is None after a concurrent shutdown()
            /\ Op_End(t, "AttributeError")
            /\ UNCHANGED outbox
       ELSE IF outbox[p] # <<>>
       THEN LET r == Head(outbox[p]) IN
            /\ outbox' = [outbox EXCEPT ![p] = Tail(@)]
            /\ IF r.type = "ERROR"
               THEN Op_End(t, "RuntimeError")
               ELSE IF cmd[t] # "GENERATE_STREAM"
               THEN Op_End(t, "ok")
               ELSE IF r.type = "CHUNK"
               THEN /\ yielded' = [yielded EXCEPT ![t] = r.k]
                    /\ Goto(t, "st_yield")
                    /\ UNCHANGED <<plock, arg, cont, cmd, req, ref, listing>>
               ELSE IF r.type = "DONE"
               THEN Op_End(t, "ok")
               ELSE \* a RESULT matches no branch of the loop: poll again
                    /\ yielded' = [yielded EXCEPT ![t] = 0]
                    /\ Goto(t, "op_wait")
                    /\ UNCHANGED <<plock, arg, cont, cmd, req, ref, listing>>
       ELSE IF wstate[p] # "running"
       THEN \* end-of-stream: recv raises EOFError
            /\ Op_End(t, IF cmd[t] = "GENERATE_STREAM" THEN "WorkerCrashed" ELSE "EOFError")
            /\ UNCHANGED outbox
       ELSE \* nothing arrived within the timeout
            /\ Op_End(t, "TimeoutError")
            /\ UNCHANGED outbox
    /\ UNCHANGED <<supVars, dirVars, nextProxy, pname, pprocess, pconn, idle_time, stopSet,
                   wstate, llm, lparams, wpc, stopped, wcur, wn, inbox, nextId>>

\* the caller drops the stream iterator while it is suspended at a yield:
\* GeneratorExit leaves the `with self.lock` block
Op_Abandon(t) ==
    /\ pc[t] = "st_yield"
    /\ Op_End(t, "GeneratorExit")
    /\ UNCHANGED <<supVars, dirVars, nextProxy, pname, pprocess, pconn, idle_time, stopSet,
                   workVars, nextId>>

\* the request handler ends without using the Proxy it got
Handler_Drop(t) ==
    /\ pc[t] = "have"
    /\ ref' = [ref EXCEPT ![t] = 0]
    /\ Return(t, Ret("handler", "dropped", NoName))
    /\ UNCHANGED <<supVars, dirVars, proxVars, workVars, nextId>>

\* ------------------------------------------------------------ ModelWorker
\* the defaults of request.payload.get(k, ...) in _handle_load
WorkerDefault(k) ==
    CASE k = "n_ctx" -> "4096"
      [] k = "n_gpu_layers" -> "-1"
      [] k = "n_threads" -> "8"
      [] k = "override_tensor" -> "None"
      [] k = "offload_kqv" -> "True"

\* _handle_load: the arguments it constructs Llama with from the payload
LlamaArgs(payload) ==
    [k \in LoadKeys \cup {"model_path"} |->
        IF k = "model_path" THEN payload["model_path"] ELSE Get(payload, k, WorkerDefault(k))]

Send(p, r) == outbox' = [outbox EXCEPT ![p] = Append(@, r)]

\* run(): conn.recv() one request and _handle_request it; the worker is in
\* run()'s recv with request r at the head of its channel
Worker_Recv(p, c) ==
    /\ wstate[p] = "running"
    /\ wpc[p] = "recv"
    /\ inbox[p] # <<>>
    /\ Head(inbox[p]).cmd \in c

\* _handle_load altered: no `if self.llm is not None` check, every LOAD
\* constructs a Llama
Worker_Load_Reload(p) ==
    /\ Worker_Recv(p, {"LOAD"})
    /\ LET r == Head(inbox[p]) IN
       \E ok \in BOOLEAN :
          /\ llm' = [llm EXCEPT ![p] = ok]
          /\ lparams' = [lparams EXCEPT ![p] = IF ok THEN LlamaArgs(r.payload) ELSE NoParams]
          /\ Send(p, IF ok THEN Response(r.id, "RESULT", 0, "loaded")
                           ELSE Response(r.id, "ERROR", 0, "load failed"))
    /\ inbox' = [inbox EXCEPT ![p] = Tail(@)]
    /\ UNCHANGED <<wstate, wpc, stopped, wcur, wn>>
    /\ UNCHANGED <<supVars, dirVars, proxVars, thrVars, nextId>>
    /\ ret' = NoRet

\* _handle_load: a second LOAD is answered "already_loaded"; Llama(...)
\* succeeds or raises
Worker_Load(p) ==
    /\ Worker_Recv(p, {"LOAD"})
    /\ LET r == Head(inbox[p]) IN
       IF llm[p]
       THEN Send(p, Response(r.id, "RESULT", 0, "already_loaded")) /\ UNCHANGED <<llm, lparams>>
       ELSE \E ok \in BOOLEAN :
              /\ llm' = [llm EXCEPT ![p] = ok]
              /\ lparams' = [lparams EXCEPT ![p] = IF ok THEN LlamaArgs(r.payload) ELSE NoParams]
              /\ Send(p, IF ok THEN Response(r.id, "RESULT", 0, "loaded")
                               ELSE Response(r.id, "ERROR", 0, "load failed"))
    /\ inbox' = [inbox EXCEPT ![p] = Tail(@)]
    /\ UNCHANGED <<wstate, wpc, stopped, wcur, wn>>
    /\ UNCHANGED <<supVars, dirVars, proxVars, thrVars, nextId>>
    /\ ret' = NoRet

\* run() altered: an exception of a handler is answered with ERROR and then
\* ends the loop
Worker_Generate_FailExits(p) ==
    /\ Worker_Recv(p, {"GENERATE", "TOKENIZE"})
    /\ LET r == Head(inbox[p]) IN
       IF ~llm[p]
       THEN /\ Send(p, Response(r.id, "ERROR", 0, "Model not loaded"))
            /\ inbox' = [inbox EXCEPT ![p] = Tail(@)]
            /\ UNCHANGED <<wstate, llm, lparams, wpc, stopped, wcur, wn>>
       ELSE \/ /\ Send(p, Response(r.id, "RESULT", 0, "result"))
               /\ inbox' = [inbox EXCEPT ![p] = Tail(@)]
               /\ UNCHANGED <<wstate, llm, lparams, wpc, stopped, wcur, wn>>
            \/ /\ Send(p, Response(r.id, "ERROR", 0, "exception"))
               /\ WorkerExit(p)
    /\ UNCHANGED <<supVars, dirVars, proxVars, thrVars, nextId>>
    /\ ret' = NoRet

\* _handle_generate and _handle_tokenize altered: without a model they return
\* without sending anything
Worker_Generate_Silent(p) ==
    /\ Worker_Recv(p, {"GENERATE", "TOKENIZE"})
    /\ LET r == Head(inbox[p]) IN
       IF ~llm[p]
       THEN UNCHANGED outbox
       ELSE \E ok \in BOOLEAN :
              Send(p, IF ok THEN Response(r.id, "RESULT", 0, "result")
                            ELSE Response(r.id, "ERROR", 0, "exception"))
    /\ inbox' = [inbox EXCEPT ![p] = Tail(@)]
    /\ UNCHANGED <<wstate, llm, lparams, wpc, stopped, wcur, wn>>
    /\ UNCHANGED <<supVars, dirVars, proxVars, thrVars, nextId>>
    /\ ret' = NoRet

\* _handle_generate and _handle_tokenize: one response; self.llm(...) or
\* self.llm.tokenize(...) succeeds or raises
Worker_Generate(p) ==
    /\ Worker_Recv(p, {"GENERATE", "TOKENIZE"})
    /\ LET r == Head(inbox[p]) IN
       IF ~llm[p]
       THEN Send(p, Response(r.id, "ERROR", 0, "Model not loaded"))
       ELSE \E ok \in BOOLEAN :
              Send(p, IF ok THEN Response(r.id, "RESULT", 0, "result")
                            ELSE Response(r.id, "ERROR", 0, "exception"))
    /\ inbox' = [inbox EXCEPT ![p] = Tail(@)]
    /\ UNCHANGED <<wstate, llm, lparams, wpc, stopped, wcur, wn>>
    /\ UNCHANGED <<supVars, dirVars, proxVars, thrVars, nextId>>
    /\ ret' = NoRet

\* _handle_stream up to its loop: ERROR when no model is loaded, else the
\* generator is created and stopped = False
Worker_StreamStart(p) ==
    /\ Worker_Recv(p, {"GENERATE_STREAM"})
    /\ LET r == Head(inbox[p]) IN
       IF ~llm[p]
       THEN /\ Send(p, Response(r.id, "ERROR", 0, "Model not loaded"))
            /\ UNCHANGED <<wpc, stopped, wcur, wn>>
       ELSE /\ wpc' = [wpc EXCEPT ![p] = "stream"]
            /\ stopped' = [stopped EXCEPT ![p] = FALSE]
            /\ wcur' = [wcur EXCEPT ![p] = r.id]
            /\ wn' = [wn EXCEPT ![p] = 0]
            /\ UNCHANGED outbox
    /\ inbox' = [inbox EXCEPT ![p] = Tail(@)]
    /\ UNCHANGED <<wstate, llm, lparams>>
    /\ UNCHANGED <<supVars, dirVars, proxVars, thrVars, nextId>>
    /\ ret' = NoRet

\* _handle_shutdown: answer, leave run()'s loop, the process ends
Worker_Shutdown(p) ==
    /\ Worker_Recv(p, {"SHUTDOWN"})
    /\ Send(p, Response(Head(inbox[p]).id, "RESULT", 0, "shutdown"))
    /\ WorkerExit(p)
    /\ UNCHANGED <<supVars, dirVars, proxVars, thrVars, nextId>>
    /\ ret' = NoRet

\* run(): conn.recv() raises EOFError (nothing left to read, the parent end is
\* closed): the loop is left without a response
Worker_EOF(p) ==
    /\ Worker_Recv(p, {"EOF"})
    /\ WorkerExit(p)
    /\ UNCHANGED <<supVars, dirVars, proxVars, thrVars, outbox, nextId>>
    /\ ret' = NoRet

\* _handle_status and _handle_heartbeat: one RESULT, with or without a model
Worker_Status(p) ==
    /\ Worker_Recv(p, {"STATUS", "HEARTBEAT"})
    /\ LET r == Head(inbox[p]) IN
       Send(p, Response(r.id, "RESULT", 0,
                        IF r.cmd = "HEARTBEAT" THEN "alive"
                        ELSE IF llm[p] THEN "loaded: True" ELSE "loaded: False"))
    /\ inbox' = [inbox EXCEPT ![p] = Tail(@)]
    /\ UNCHANGED <<wstate, llm, lparams, wpc, stopped, wcur, wn>>
    /\ UNCHANGED <<supVars, dirVars, proxVars, thrVars, nextId>>
    /\ ret' = NoRet

\* the loop of _handle_stream is left: the worker is back in run()'s recv
StreamReturn(p) ==
    /\ wpc' = [wpc EXCEPT ![p] = "recv"]
    /\ wcur' = [wcur EXCEPT ![p] = 0]
    /\ wn' = [wn EXCEPT ![p] = 0]

\* Worker_Pull altered: an exception of the generator leaves the handler
\* without any response
Worker_Pull_NoTerminal(p) ==
    /\ wstate[p] = "running"
    /\ wpc[p] = "stream"
    /\ \/ /\ Send(p, Response(wcur[p], "DONE", 0, "stop"))
          /\ StreamReturn(p)
       \/ /\ StreamReturn(p)
          /\ UNCHANGED outbox
       \/ /\ wn[p] < MaxChunks
          /\ wpc' = [wpc EXCEPT ![p] = "pulled"]
          /\ UNCHANGED <<wcur, wn, outbox>>
    /\ UNCHANGED <<supVars, dirVars, proxVars, thrVars, wstate, llm, lparams, stopped, inbox, nextId>>
    /\ ret' = NoRet

\* `for output in stream`: the generator is exhausted (the loop ends, DONE is
\* sent), raises (ERROR is sent by _handle_request's except), or yields its
\* next output
Worker_Pull(p) ==
    /\ wstate[p] = "running"
    /\ wpc[p] = "stream"
    /\ \/ /\ Send(p, Response(wcur[p], "DONE", 0, "stop"))
          /\ StreamReturn(p)
       \/ /\ Send(p, Response(wcur[p], "ERROR", 0, "exception"))
          /\ StreamReturn(p)
       \/ /\ wn[p] < MaxChunks
          /\ wpc' = [wpc EXCEPT ![p] = "pulled"]
          /\ UNCHANGED <<wcur, wn, outbox>>
    /\ UNCHANGED <<supVars, dirVars, proxVars, thrVars, wstate, llm, lparams, stopped, inbox, nextId>>
    /\ ret' = NoRet

\* Worker_Emit altered: the stop_event is not looked at, every output pulled
\* is sent as a CHUNK
Worker_Emit_IgnoreStop(p) ==
    /\ wstate[p] = "running"
    /\ wpc[p] = "pulled"
    /\ Send(p, Response(wcur[p], "CHUNK", wn[p] + 1, "chunk"))
    /\ wn' = [wn EXCEPT ![p] = @ + 1]
    /\ wpc' = [wpc EXCEPT ![p] = "stream"]
    /\ UNCHANGED <<wcur, stopped>>
    /\ UNCHANGED <<supVars, dirVars, proxVars, thrVars, wstate, llm, lparams, inbox, nextId>>
    /\ ret' = NoRet

\* Worker_Emit altered: a cancelled stream drops the loaded model
Worker_Emit_StopUnloads(p) ==
    /\ wstate[p] = "running"
    /\ wpc[p] = "pulled"
    /\ IF stopSet[p]
       THEN /\ stopped' = [stopped EXCEPT ![p] = TRUE]
            /\ llm' = [llm EXCEPT ![p] = FALSE]
            /\ lparams' = [lparams EXCEPT ![p] = NoParams]
            /\ Send(p, Response(wcur[p], "DONE", 0, "stop"))
            /\ StreamReturn(p)
       ELSE /\ Send(p, Response(wcur[p], "CHUNK", wn[p] + 1, "chunk"))
            /\ wn' = [wn EXCEPT ![p] = @ + 1]
            /\ wpc' = [wpc EXCEPT ![p] = "stream"]
            /\ UNCHANGED <<wcur, stopped, llm, lparams>>
    /\ UNCHANGED <<supVars, dirVars, proxVars, thrVars, wstate, inbox, nextId>>
    /\ ret' = NoRet

\* the body of the loop: when the stop_event is set, stopped = True, break
\* and send DONE; else send the output as a CHUNK and go round
Worker_Emit(p) ==
    /\ wstate[p] = "running"
    /\ wpc[p] = "pulled"
    /\ IF stopSet[p]
       THEN /\ stopped' = [stopped EXCEPT ![p] = TRUE]
            /\ Send(p, Response(wcur[p], "DONE", 0, "stop"))
            /\ StreamReturn(p)
       ELSE /\ Send(p, Response(wcur[p], "CHUNK", wn[p] + 1, "chunk"))
            /\ wn' = [wn EXCEPT ![p] = @ + 1]
            /\ wpc' = [wpc EXCEPT ![p] = "stream"]
            /\ UNCHANGED <<wcur, stopped>>
    /\ UNCHANGED <<supVars, dirVars, proxVars, thrVars, wstate, llm, lparams, inbox, nextId>>
    /\ ret' = NoRet

\* the child dies on its own (out of memory, CUDA fault, external kill)
Worker_Crash(p) ==
    /\ wstate[p] = "running"
    /\ WorkerExit(p)
    /\ UNCHANGED <<supVars, dirVars, proxVars, thrVars, outbox, nextId>>
    /\ ret' = NoRet

\* ------------------------------------------------------------ environment
\* the values of Command
Commands == {"LOAD", "GENERATE", "GENERATE_STREAM", "TOKENIZE", "STATUS", "SHUTDOWN",
             "HEARTBEAT"}

\* end-of-stream on a pipe, read by recv after everything sent before it
EOF == Request(0, "EOF")

\* the gateway process is killed: its threads are gone, and the parent ends of
\* the pipes of its workers are closed
Gateway_Exit ==
    /\ \E t \in Threads : pc[t] # "gone"
    /\ pc' = [t \in Threads |-> "gone"]
    /\ inbox' = [p \in ProxyIds |->
                    IF wstate[p] = "running" THEN Append(inbox[p], EOF) ELSE inbox[p]]
    /\ UNCHANGED <<supVars, dirVars, proxVars, arg, cont, ref, cmd, req, yielded, listing,
                   wstate, llm, lparams, wpc, stopped, wcur, wn, outbox, nextId>>
    /\ ret' = NoRet

\* a request of command c arrives on the pipe of the running worker of p, sent
\* by the holder of the parent end (a LOAD carries the payload for model n)
Client_Send(p, c, n) ==
    /\ wstate[p] = "running"
    /\ \E t \in Threads : pc[t] # "gone"
    /\ nextId <= MaxReq
    /\ inbox' = [inbox EXCEPT ![p] =
                    Append(@, IF c = "LOAD" THEN LoadRequest(nextId, LoadPayload(n))
                                            ELSE Request(nextId, c))]
    /\ nextId' = nextId + 1
    /\ UNCHANGED <<supVars, dirVars, proxVars, thrVars,
                   wstate, llm, lparams, wpc, stopped, wcur, wn, outbox>>
    /\ ret' = NoRet

\* time passes: time.time() - last_used of the Proxy in the slot grows
Tick ==
    /\ active_proxy # 0
    /\ idle_time[active_proxy] <= IdleTimeout
    /\ idle_time' = [idle_time EXCEPT ![active_proxy] = @ + 1]
    /\ UNCHANGED <<supVars, dirVars, nextProxy, pname, pprocess, pconn, plock, stopSet,
                   workVars, thrVars, nextId>>
    /\ ret' = NoRet

\* files appear in or vanish from the models directory, or the directory does
DirChange(e, d) ==
    /\ <<e, d>> # <<dirExists, dirFiles>>
    /\ e = FALSE => d = {}
    /\ dirExists' = e
    /\ dirFiles' = d
    /\ UNCHANGED <<supVars, proxVars, workVars, thrVars, nextId>>
    /\ ret' = NoRet

\* ---------------------------------------------------------- specification
\* steps of Proxy.shutdown and of the worker that every specification has
Common ==
    \/ \E t \in Threads : GetModel_Enter(t)
    \/ \E t \in Threads : GetModel_Start(t)
    \/ \E t \in Threads : GetModel_Load(t)
    \/ \E t \in Threads : Shutdown_Begin(t)
    \/ \E t \in Threads : Shutdown_Join1(t)
    \/ \E t \in Threads : Shutdown_Join2(t)
    \/ \E t \in Threads : StopGeneration(t)
    \/ \E t \in Threads : Handler_Drop(t)
    \/ \E p \in ProxyIds : Worker_Load(p)
    \/ \E p \in ProxyIds : Worker_Shutdown(p)
    \/ \E p \in ProxyIds : Worker_Crash(p)

\* the operations on a Proxy
ProxyOps ==
    \/ \E t \in Threads, c \in ProxyCmds : Op_Begin(t, c)
    \/ \E t \in Threads : Op_Recv(t)
    \/ \E t \in Threads : Op_Abandon(t)
    \/ \E p \in ProxyIds : Worker_Generate(p)
    \/ \E p \in ProxyIds : Worker_StreamStart(p)
    \/ \E p \in ProxyIds : Worker_Pull(p)
    \/ \E p \in ProxyIds : Worker_Emit(p)

\* the supervisor operations that empty the slot
EvictOps ==
    \/ \E t \in Threads, n \in Names \cup {NoName} : UnloadModel_Enter(t, n)
    \/ \E t \in Threads : UnloadModel_Finish(t)
    \/ \E t \in Threads : UnloadIdle_Enter(t)
    \/ \E t \in Threads : UnloadIdle_Finish(t)
    \/ \E t \in Threads : UpdateConfig_Clear(t)
    \/ \E t \in Threads : UpdateConfig_Discover(t)
    \/ Tick

\* the whole gateway
Next ==
    \/ \E t \in Threads : ListModels_Step(t)
    \/ \E t \in Threads : UnloadIdle_Raise(t)
    \/ \E p \in ProxyIds, c \in Commands, n \in Names : Client_Send(p, c, n)
    \/ \E p \in ProxyIds : Worker_Status(p)
    \/ \E p \in ProxyIds : Worker_EOF(p)
    \/ Gateway_Exit
    \/ \E t \in Threads, n \in Names \cup {NoName} : GetModel_Check(t, n)
    \/ \E t \in Threads, c \in Names \cup {NoName} : UpdateConfig_Enter(t, c)
    \/ \E e \in BOOLEAN, d \in SUBSET Files : DirChange(e, d)
    \/ \E t \in Threads : ListModels(t)
    \/ Common
    \/ ProxyOps
    \/ EvictOps

\* the supervisor: every operation on the ActiveSlot and the registry, by
\* request handlers that do not go on to use the Proxy they get; the file
\* "B.gguf" comes and goes, the configuration names no default model
NextSlot ==
    \/ \E t \in Threads, n \in Names \cup {NoName} : GetModel_Check(t, n)
    \/ \E t \in Threads : UpdateConfig_Enter(t, NoName)
    \/ \E d \in {{"A.gguf"}, {"A.gguf", "B.gguf"}} : DirChange(TRUE, d)
    \/ \E t \in Threads : ListModels(t)
    \/ Common
    \/ EvictOps

\* one model: request handlers that get the Proxy of model "A" and run one
\* operation on it, and callers of stop_generation
NextProxy ==
    \/ \E t \in Threads : GetModel_Check(t, "A")
    \/ Common
    \/ ProxyOps

\* the registry: get_model of the default model, list_models and update_config
\* with and without a configured default, while the models directory goes
\* missing, is emptied, or gets the files "A.gguf" and "A.gguf.gguf"
NextConfig ==
    \/ \E t \in Threads : GetModel_Check(t, NoName)
    \/ \E t \in Threads, c \in {"B", NoName} : UpdateConfig_Enter(t, c)
    \/ \E e \in BOOLEAN, d \in {{}, {"A.gguf", "A.gguf.gguf"}} : DirChange(e, d)
    \/ \E t \in Threads : ListModels(t)
    \/ \E t \in Threads : UpdateConfig_Clear(t)
    \/ \E t \in Threads : UpdateConfig_Discover(t)
    \/ Common

\* the idle reaper: request handlers that get the Proxy of model "A" and run
\* operations on it, while monitor_idle_models calls unload_idle_models and
\* time passes
NextReaper ==
    \/ \E t \in Threads : GetModel_Check(t, "A")
    \/ \E t \in Threads : UnloadIdle_Enter(t)
    \/ \E t \in Threads : UnloadIdle_Finish(t)
    \/ Tick
    \/ Common
    \/ ProxyOps

\* the worker: a child spawned and loaded by get_model("A") that is sent every
\* command in every order on its pipe
NextWorker ==
    \/ \E t \in Threads : GetModel_Check(t, "A")
    \/ \E p \in ProxyIds, c \in Commands, n \in Names : Client_Send(p, c, n)
    \/ \E p \in ProxyIds : Worker_Status(p)
    \/ \E p \in ProxyIds : Worker_EOF(p)
    \/ Gateway_Exit
    \/ \E p \in ProxyIds : Worker_Generate(p)
    \/ \E p \in ProxyIds : Worker_StreamStart(p)
    \/ \E p \in ProxyIds : Worker_Pull(p)
    \/ \E p \in ProxyIds : Worker_Emit(p)
    \/ Common

\* model loading: one request handler after another calls get_model of "A" or
\* "B" and drops the Proxy it gets
NextLoad ==
    \/ \E n \in Names : GetModel_Check("t1", n)
    \/ Common

\* a request handler calls get_model(n) while a Proxy can still be constructed
\* and its LOAD sent after a SHUTDOWN of the one in the slot
Handler_GetModel(t, n) ==
    /\ nextProxy <= MaxReq /\ nextId < MaxReq
    /\ GetModel_Check(t, n)

\* the steps a thread takes while it holds the supervisor mutex; each is over
\* within the timeout of a join or of a poll
LockedStep(t) ==
    \/ GetModel_Start(t) \/ GetModel_Load(t)
    \/ Shutdown_Begin(t) \/ Shutdown_Join1(t) \/ Shutdown_Join2(t)
    \/ UnloadIdle_Finish(t)

\* monitor_idle_models: thread "t2" is the idle reaper, which calls
\* unload_idle_models tick after tick, also after a call that raised; thread
\* "t1" is a request handler that gets the Proxy of "A" and runs operations on it
NextMonitor ==
    \/ Handler_GetModel("t1", "A")
    \/ UnloadIdle_Enter("t2")
    \/ UnloadIdle_Raise("t2")
    \/ \E t \in Threads : UnloadIdle_Finish(t)
    \/ Tick
    \/ Common
    \/ ProxyOps

\* the reaper is scheduled fairly: it gets the supervisor mutex when that is
\* free again and again, and its calls of shutdown() do not raise for ever; no
\* thread stays inside the mutex for ever
MonitorFair ==
    /\ SF_vars(UnloadIdle_Enter("t2"))
    /\ SF_vars(Shutdown_Begin("t2"))
    /\ \A t \in Threads : WF_vars(LockedStep(t))

\* every step of a supervisor operation inside `with self.lock`
SupervisorStep(t) ==
    \/ LockedStep(t)
    \/ UnloadModel_Finish(t)
    \/ UpdateConfig_Clear(t) \/ UpdateConfig_Discover(t)

\* supervisor operations beside Proxy operations: thread "t1" is a request
\* handler that gets the Proxy of "A" and runs operations on it, thread "t2"
\* calls unload_model, unload_idle_models, update_config and stop_generation
NextLocks ==
    \/ Handler_GetModel("t1", "A")
    \/ \E n \in {"A", NoName} : UnloadModel_Enter("t2", n)
    \/ UnloadIdle_Enter("t2")
    \/ UpdateConfig_Enter("t2", NoName)
    \/ \E t \in Threads : UnloadModel_Finish(t)
    \/ \E t \in Threads : UnloadIdle_Finish(t)
    \/ \E t \in Threads : UpdateConfig_Clear(t)
    \/ \E t \in Threads : UpdateConfig_Discover(t)
    \/ Tick
    \/ Common
    \/ ProxyOps

\* a thread that waits for the supervisor mutex gets it when it is free again
\* and again; a thread inside the mutex takes its next step, each of which is
\* over within the timeout of a join or of a poll. Nothing is assumed of the
\* threads inside a Proxy operation, nor of the worker.
LocksFair ==
    /\ \A t \in Threads : SF_vars(GetModel_Enter(t))
    /\ \A t \in Threads : WF_vars(SupervisorStep(t))

\* listing beside loading: thread "t1" calls get_model of "A" and of "B", thread
\* "t2" calls list_models
NextList ==
    \/ \E n \in Names : GetModel_Check("t1", n)
    \/ ListModels_Step("t2")
    \/ Common

Spec == Init /\ [][Next]_vars
SpecList == Init /\ [][NextList]_vars
SpecLocks == Init /\ [][NextLocks]_vars /\ LocksFair
SpecMonitor == Init /\ [][NextMonitor]_vars /\ MonitorFair
SpecLoad == InitLoad /\ [][NextLoad]_vars
SpecWorker == Init /\ [][NextWorker]_vars
SpecReaper == Init /\ [][NextReaper]_vars
SpecSlot == Init /\ [][NextSlot]_vars
SpecProxy == Init /\ [][NextProxy]_vars
SpecConfig == Init /\ [][NextConfig]_vars


\* ================================================================ claims

Running == {p \in ProxyIds : wstate[p] = "running"}

\* C1: at no point are two worker child processes of the gateway alive at the
\* same time, for every interleaving of get_model(X), get_model(Y),
\* unload_model, unload_idle_models and update_config: the child of the
\* previous Proxy has exited before the child of the next Proxy is spawned.
C1_AtMostOneChild == Cardinality(Running) <= 1

\* C1 witness: a model switch has happened while the other thread was inside
\* get_model too: the second Proxy's child runs, the first one's has exited.
C1_Witness ==
    /\ nextProxy >= 3
    /\ wstate[1] = "exited"
    /\ wstate[2] = "running"
    /\ active_proxy = 2
    /\ \E t \in Threads : pc[t] = "gm_lock"

\* C2: when Proxy.start() fails inside get_model (LOAD answered with ERROR,
\* or LOAD timed out), get_model raises and leaves the ActiveSlot empty: no
\* Proxy and no active model name, whatever the slot held before the call.
C2_FailedStartEmptiesSlot ==
    (ret.op = "get_model" /\ ret.res \in {"RuntimeError", "TimeoutError"})
        => (active_proxy = 0 /\ active_model = NoName)

\* C3: whenever the supervisor mutex is not held the ActiveSlot is coherent:
\* active_proxy is None iff active_model is None, and the Proxy in a non-empty
\* slot has model_name = active_model, a key of the registry.
C3_SlotCoherent ==
    mlock = NoThread =>
        /\ (active_proxy = 0) <=> (active_model = NoName)
        /\ active_proxy # 0 =>
              /\ pname[active_proxy] = active_model
              /\ active_model \in models


\* ------------------------------------------------- the channel of a Proxy
\* the response the worker of p appends to the channel in this step, if any
Sent(p) ==
    IF Len(outbox'[p]) = Len(outbox[p]) + 1
        THEN {outbox'[p][Len(outbox'[p])]}
        ELSE {}

\* this step takes the response at the head of the channel of p (recv)
Consumed(p) ==
    /\ pconn[p] /\ pconn'[p]
    /\ outbox[p] # <<>>
    /\ outbox'[p] = Tail(outbox[p])

\* thread t is inside an operation that receives on the channel of p:
\* generate, generate_stream or tokenize under the Proxy's lock, or start()'s
\* LOAD under the supervisor's
Receiving(t, p) ==
    \/ pc[t] \in {"op_wait", "st_yield"} /\ ref[t] = p
    \/ pc[t] = "gm_load" /\ active_proxy = p

\* C4: every response a Proxy operation (start's LOAD, generate,
\* generate_stream, tokenize) takes from the channel carries the id of the
\* request that this operation sent, also after an earlier operation ended by
\* timeout or its stream iterator was abandoned before DONE.
C4_ResponseMatchesRequest ==
    [][\A t \in Threads, p \in ProxyIds :
          (Receiving(t, p) /\ Consumed(p)) => Head(outbox[p]).id = req[t]]_vars

\* the requests the worker of p has not answered with a terminal response:
\* those waiting in the channel and the one it is handling
Outstanding(p) == Len(inbox[p]) + (IF wpc[p] = "recv" THEN 0 ELSE 1)

\* C5: on one Proxy at most one request is outstanding at the worker at any
\* time: a request is sent only after the previous one has produced its
\* terminal response, for all interleavings of generate, generate_stream,
\* tokenize and shutdown.
C5_OneOutstanding == \A p \in ProxyIds : Outstanding(p) <= 1

\* the worker of p is alive before and after this step
Alive2(p) == wstate[p] = "running" /\ wstate'[p] = "running"

\* C6: for every GENERATE_STREAM request the worker handles it sends zero or
\* more CHUNKs and then exactly one terminal response (DONE or ERROR), all
\* with the id of the request, and no CHUNK after the terminal: without a
\* model one ERROR and no loop; in the loop a step sends nothing (an output is
\* pulled), or one CHUNK and stays, or one terminal and leaves; outside the
\* loop no CHUNK is sent.
C6_StreamProtocol ==
    [][\A p \in ProxyIds :
          /\ (Alive2(p) /\ Worker_Recv(p, {"GENERATE_STREAM"}) /\ inbox'[p] = Tail(inbox[p])) =>
                \/ /\ wpc'[p] = "stream" /\ wcur'[p] = Head(inbox[p]).id
                   /\ Sent(p) = {}
                \/ /\ wpc'[p] = "recv"
                   /\ Sent(p) = {Response(Head(inbox[p]).id, "ERROR", 0, "Model not loaded")}
          /\ (Alive2(p) /\ wpc[p] # "recv" /\ (wpc'[p] # wpc[p] \/ Sent(p) # {})) =>
                \/ wpc[p] = "stream" /\ wpc'[p] = "pulled" /\ Sent(p) = {}
                \/ /\ wpc[p] = "pulled" /\ wpc'[p] = "stream"
                   /\ \E m \in Sent(p) : m.type = "CHUNK" /\ m.id = wcur[p]
                \/ /\ wpc'[p] = "recv"
                   /\ \E m \in Sent(p) : m.type \in {"DONE", "ERROR"} /\ m.id = wcur[p]
          /\ wpc[p] = "recv" => \A m \in Sent(p) : m.type # "CHUNK"]_vars

\* C6 witness: the worker has sent a CHUNK and then the DONE of the same
\* request and is back in run()
C6_Witness ==
    \E p \in ProxyIds :
        /\ wstate[p] = "running" /\ wpc[p] = "recv"
        /\ Len(outbox[p]) >= 2
        /\ LET n == Len(outbox[p]) IN
              /\ outbox[p][n - 1].type = "CHUNK"
              /\ outbox[p][n].type = "DONE"
              /\ outbox[p][n].id = outbox[p][n - 1].id

\* C7: when the stop flag is set while a stream is in progress, the worker,
\* looking at it with the next output in hand, sends no CHUNK for that output,
\* leaves the loop and sends DONE with finish_reason "stop", not ERROR; the
\* caller's iterator, taking that DONE, ends normally and releases the lock.
C7_StopEndsStream ==
    [][/\ \A p \in ProxyIds :
             (Alive2(p) /\ wpc[p] = "pulled" /\ stopSet[p] /\ wpc'[p] # "pulled") =>
                 /\ wpc'[p] = "recv"
                 /\ Sent(p) = {Response(wcur[p], "DONE", 0, "stop")}
       /\ \A t \in Threads, p \in ProxyIds :
             (/\ Receiving(t, p) /\ cmd[t] = "GENERATE_STREAM"
              /\ Consumed(p) /\ Head(outbox[p]).type = "DONE") =>
                 /\ ret' = [t |-> t, op |-> "GENERATE_STREAM", res |-> "ok", val |-> NoName]
                 /\ plock'[p] = NoThread]_vars

\* C7 witness: the only stream ever started was cut short by the stop flag and
\* its iterator has just ended normally
C7_Witness ==
    /\ nextId = 3
    /\ active_proxy # 0 /\ stopped[active_proxy]
    /\ ret.op = "GENERATE_STREAM" /\ ret.res = "ok"

\* C8: cancelling a stream with stop_generation() leaves the worker alive with
\* its model loaded and the same Proxy in the ActiveSlot; a later get_model of
\* the same model returns that Proxy with no spawn and no LOAD; a new
\* generate_stream clears the stop flag before it sends its request.
C8_WorkerSurvivesStop ==
    [][/\ ret'.op = "stop_generation" =>
             UNCHANGED <<wstate, llm, lparams, active_proxy, active_model, nextProxy, pprocess, pconn>>
       /\ \A p \in ProxyIds :
             (~stopped[p] /\ stopped'[p]) =>
                 /\ wstate'[p] = "running" /\ llm'[p]
                 /\ UNCHANGED <<active_proxy, active_model, nextProxy, pprocess, pconn>>
       /\ \A p \in ProxyIds : (stopped[p] /\ wstate'[p] = "running") => llm'[p]
       /\ \A t \in Threads :
             (/\ pc[t] = "gm_lock" /\ pc'[t] # "gm_lock"
              /\ active_proxy # 0 /\ arg[t] = active_model /\ is_alive(active_proxy)) =>
                 /\ pc'[t] = "have" /\ ref'[t] = active_proxy
                 /\ UNCHANGED <<active_proxy, nextProxy, wstate, inbox>>
       /\ \A p \in ProxyIds :
             (\E m \in {Request(nextId, "GENERATE_STREAM")} : inbox'[p] = Append(inbox[p], m)) =>
                 ~stopSet'[p]]_vars

\* C8 witness: after the one stream was cancelled, a generate on the same
\* Proxy got its RESULT: one spawn, three requests (LOAD, GENERATE_STREAM,
\* GENERATE), every response taken by the operation it answers
C8_Witness ==
    /\ nextProxy = 2 /\ active_proxy = 1 /\ nextId = 4
    /\ stopped[1] /\ wstate[1] = "running" /\ llm[1]
    /\ inbox[1] = <<>> /\ outbox[1] = <<>>
    /\ ret.op = "GENERATE" /\ ret.res = "ok"

\* C9: stop_generation() never waits for the Proxy's lock: whenever the
\* supervisor's lock is free it can complete, whoever holds the Proxy's; it
\* sets the stop flag of the Proxy in the slot and returns true, and returns
\* false, setting nothing, iff the slot is empty.
C9_StopNeverWaits ==
    /\ [](\A t \in Threads :
             (pc[t] = "idle" /\ mlock = NoThread) => ENABLED StopGeneration(t))
    /\ [][ret'.op = "stop_generation" =>
             /\ plock' = plock
             /\ (ret'.res = "False") <=> (active_proxy = 0)
             /\ IF active_proxy = 0
                   THEN stopSet' = stopSet
                   ELSE /\ ret'.res = "True"
                        /\ stopSet' = [stopSet EXCEPT ![active_proxy] = TRUE]]_vars

\* C9 witness: stop_generation() has just returned true while a
\* generate_stream holds the lock of the Proxy in the slot
C9_Witness ==
    /\ ret.op = "stop_generation" /\ ret.res = "True"
    /\ active_proxy # 0 /\ stopSet[active_proxy]
    /\ \E t \in Threads :
          /\ cmd[t] = "GENERATE_STREAM" /\ pc[t] \in {"op_wait", "st_yield"}
          /\ ref[t] = active_proxy /\ plock[active_proxy] = t

\* C10: a turn of generate_stream's loop yields the CHUNK it receives, and the
\* iterator ends in one of four ways by what arrives next: normally on DONE,
\* with the worker's error on ERROR, with a timeout when nothing arrives from
\* a live worker, with "worker crashed" at end-of-stream; the Proxy's lock is
\* released in each.
C10_FourEndings ==
    [][\A t \in Threads :
          LET p == ref[t]
              ends(res) == /\ ret' = [t |-> t, op |-> "GENERATE_STREAM", res |-> res, val |-> NoName]
                           /\ plock'[p] = NoThread
          IN (/\ cmd[t] = "GENERATE_STREAM" /\ pc[t] \in {"op_wait", "st_yield"}
              /\ \/ ret'.t = t /\ ret'.res # "GeneratorExit"
                 \/ Consumed(p)) =>
                IF Consumed(p)
                THEN LET r == Head(outbox[p]) IN
                     CASE r.type = "CHUNK" -> /\ pc'[t] = "st_yield" /\ yielded'[t] = r.k
                                              /\ plock'[p] = t
                       [] r.type = "DONE" -> ends("ok")
                       [] r.type = "ERROR" -> ends("RuntimeError")
                       [] OTHER -> pc'[t] = "op_wait" /\ plock'[p] = t
                ELSE IF wstate[p] = "running"
                THEN ends("TimeoutError")
                ELSE ends("WorkerCrashed")]_vars

\* C11: when the child of the active Proxy has died while the slot is
\* Active(X), get_model(X) does not return that Proxy: it goes on to
\* shutdown(), then constructs a new Proxy, spawns its child and sends LOAD;
\* when LOAD is answered it returns this new Proxy, installed in the slot
\* with active_model = X.
C11_DeadWorkerReplaced ==
    [][\A t \in Threads :
          /\ (/\ pc[t] = "gm_lock" /\ pc'[t] # "gm_lock"
              /\ active_proxy # 0 /\ active_model = arg[t]
              /\ wstate[active_proxy] # "running") =>
                 pc'[t] = "shutdown" /\ ref'[t] = 0
          /\ (pc[t] = "sd_done" /\ cont[t] = "get_model" /\ pc'[t] = "gm_load") =>
                 /\ active_proxy # 0 => wstate[active_proxy] # "running"
                 /\ active_proxy' = nextProxy /\ wstate[nextProxy] = "unborn"
                 /\ wstate'[nextProxy] = "running" /\ pname'[nextProxy] = arg[t]
                 /\ inbox'[nextProxy] = <<LoadRequest(nextId, LoadPayload(arg[t]))>>
          /\ (pc[t] = "gm_load" /\ ret'.op = "get_model" /\ ret'.res = "ok") =>
                 /\ ref'[t] = active_proxy /\ active_proxy' = active_proxy
                 /\ active_model' = arg[t] /\ pname[active_proxy] = arg[t]
                 /\ Head(outbox[active_proxy]).type = "RESULT"]_vars

\* C11 witness: the first Proxy of model A was loaded and handed to a request
\* handler, its child died, and get_model("A") has just returned the second
\* Proxy, loaded by a fresh child (two LOADs, no SHUTDOWN were sent)
C11_Witness ==
    /\ nextId = 3 /\ nextProxy = 3
    /\ wstate[1] = "exited" /\ wstate[2] = "running" /\ llm[2]
    /\ active_proxy = 2 /\ active_model = "A"
    /\ ret.op = "get_model" /\ ret.res = "ok"
    /\ \E t \in Threads : pc[t] = "have" /\ ref[t] = 1
    /\ \E t \in Threads : ret.t = t /\ ref[t] = 2

\* C12: a response timeout in generate, generate_stream or tokenize ends that
\* operation with TimeoutError and releases the Proxy's lock; it happens with
\* the child running and leaves the child, its channel and the ActiveSlot as
\* they are.
C12_TimeoutKeepsWorker ==
    [][(ret'.op \in ProxyCmds /\ ret'.res = "TimeoutError") =>
          LET p == ref[ret'.t] IN
          /\ plock[p] = ret'.t /\ plock'[p] = NoThread
          /\ wstate[p] = "running" /\ outbox[p] = <<>>
          /\ UNCHANGED <<wstate, llm, lparams, inbox, outbox, pprocess, pconn,
                         active_proxy, active_model, nextProxy>>]_vars

\* C12 witness: tokenize has just timed out; its request is still unanswered
\* at the running child of the Proxy in the slot, whose lock is free
C12_Witness ==
    /\ ret.op = "TOKENIZE" /\ ret.res = "TimeoutError"
    /\ active_proxy # 0 /\ active_model = "A"
    /\ wstate[active_proxy] = "running" /\ llm[active_proxy]
    /\ plock[active_proxy] = NoThread
    /\ Len(inbox[active_proxy]) = 1 /\ Head(inbox[active_proxy]).cmd = "TOKENIZE"

\* C13: when the LOAD response does not arrive within its timeout, get_model
\* fails with TimeoutError and the ActiveSlot is as the caller found it before
\* the call; so it does not hold the Proxy that this call constructed (the
\* one constructed last, as the call holds the supervisor mutex from the
\* construction to its end).
C13_LoadTimeoutKeepsSlot ==
    (ret.op = "get_model" /\ ret.res = "TimeoutError") => active_proxy # nextProxy - 1

\* C14: get_model(name) whose resolved name (the default for None) is not a
\* key of the registry fails with ValueError and changes nothing: slot,
\* processes and channels are untouched; a name that is a key goes on to the
\* mutex.
C14_UnknownModelNoEffect ==
    [][\A t \in Threads, n \in Names \cup {NoName} :
          GetModel_Check(t, n) =>
             LET name == IF n = NoName THEN default_model ELSE n IN
             IF name \notin models
             THEN /\ ret' = [t |-> t, op |-> "get_model", res |-> "ValueError", val |-> NoName]
                  /\ pc'[t] = "idle"
                  /\ UNCHANGED <<supVars, dirVars, proxVars, workVars, ref, nextId>>
             ELSE pc'[t] = "gm_lock" /\ arg'[t] = name]_vars

\* C14 witness: get_model of a name whose file was removed has just failed
\* while the slot is Active(A) with a running worker
C14_Witness ==
    /\ ret.op = "get_model" /\ ret.res = "ValueError"
    /\ models = {"A"}
    /\ active_proxy # 0 /\ active_model = "A"
    /\ wstate[active_proxy] = "running" /\ llm[active_proxy]

\* C15: get_model(X) while the slot is Active(X) with a live worker returns
\* the Proxy in the slot and sets its last_used to now, and nothing else
\* changes: no spawn, no shutdown, no request, same active_model.
C15_FastPathFrame ==
    [][\A t \in Threads :
          (/\ pc[t] = "gm_lock" /\ pc'[t] # "gm_lock"
           /\ active_proxy # 0 /\ active_model = arg[t]
           /\ pprocess[active_proxy] /\ wstate[active_proxy] = "running") =>
              /\ ret' = [t |-> t, op |-> "get_model", res |-> "ok", val |-> NoName]
              /\ pc'[t] = "have" /\ ref'[t] = active_proxy
              /\ idle_time' = [idle_time EXCEPT ![active_proxy] = 0]
              /\ UNCHANGED <<supVars, dirVars, nextProxy, pname, pprocess, pconn, plock,
                             stopSet, workVars, nextId>>]_vars

\* C15 witness: both request handlers hold the one Proxy ever constructed, the
\* second got it from get_model's fast path after time had passed
C15_Witness ==
    /\ nextProxy = 2 /\ nextId = 2 /\ active_proxy = 1
    /\ \A t \in Threads : pc[t] = "have" /\ ref[t] = 1
    /\ ret.op = "get_model" /\ ret.res = "ok"
    /\ idle_time[1] = 0 /\ wstate[1] = "running"

\* C16: unload_model(name) returns False and changes nothing when the slot is
\* empty or when a name is given that differs from active_model; otherwise it
\* shuts the active Proxy down, empties the slot and returns True.
C16_UnloadModel ==
    [][\A t \in Threads :
          /\ \A n \in Names \cup {NoName} :
                UnloadModel_Enter(t, n) =>
                   IF active_proxy = 0 \/ (n # NoName /\ n # active_model)
                   THEN /\ ret' = [t |-> t, op |-> "unload_model", res |-> "False",
                                   val |-> NoName]
                        /\ UNCHANGED <<supVars, dirVars, proxVars, workVars, nextId>>
                   ELSE /\ pc'[t] = "shutdown" /\ cont'[t] = "unload_model"
                        /\ UNCHANGED <<active_proxy, active_model>>
          /\ (pc[t] = "sd_done" /\ cont[t] = "unload_model" /\ pc'[t] # pc[t]) =>
                /\ ret' = [t |-> t, op |-> "unload_model", res |-> "True", val |-> NoName]
                /\ active_proxy # 0 /\ wstate[active_proxy] # "running"
                /\ ~pprocess[active_proxy]
                /\ active_proxy' = 0 /\ active_model' = NoName]_vars

\* C16 witness: unload_model has just returned True: the slot is empty and
\* the child of the only Proxy constructed, whose model was loaded, has exited
C16_Witness ==
    /\ ret.op = "unload_model" /\ ret.res = "True"
    /\ active_proxy = 0 /\ active_model = NoName
    /\ nextProxy = 2 /\ wstate[1] = "exited"
    /\ \E t \in Threads : pc[t] = "have" /\ ref[t] = 1

\* C17: unload_idle_models(timeout) shuts the active Proxy down, empties the
\* slot and returns the list of the one registry name of the active model
\* exactly when the slot is non-empty and now - last_used > timeout; in every
\* other case it returns [] and leaves slot and worker as they are.
C17_UnloadIdle ==
    [][\A t \in Threads :
          /\ UnloadIdle_Enter(t) =>
                IF active_proxy # 0 /\ idle_time[active_proxy] > IdleTimeout
                THEN /\ pc'[t] = "shutdown" /\ cont'[t] = "unload_idle_models"
                     /\ UNCHANGED <<active_proxy, active_model>>
                ELSE /\ ret' = [t |-> t, op |-> "unload_idle_models", res |-> "[]",
                                val |-> NoName]
                     /\ UNCHANGED <<supVars, dirVars, proxVars, workVars, nextId>>
          /\ (pc[t] = "sd_done" /\ cont[t] = "unload_idle_models" /\ pc'[t] # pc[t]) =>
                /\ ret' = [t |-> t, op |-> "unload_idle_models", res |-> "[name]",
                           val |-> active_model]
                /\ active_model \in models
                /\ wstate[active_proxy] # "running"
                /\ active_proxy' = 0 /\ active_model' = NoName]_vars

\* C18: when update_config returns, the registry is the set of .gguf files in
\* the models directory at that moment, one entry per file: every file has an
\* entry, no entry is left of a file that is gone; list_models lists exactly
\* the entries of the registry.
C18_RegistryMatchesDirectory ==
    [][/\ ret'.op = "update_config" =>
             /\ \A f \in dirFiles : Stem(f) \in models'
             /\ \A n \in models' : \E f \in dirFiles : Stem(f) = n
             /\ Cardinality(models') = Cardinality(dirFiles)
       /\ \A t \in Threads : ListModels(t) => {e.id : e \in ret'.val} = models]_vars

\* C19: when update_config(new_config) returns, the slot is empty, no worker
\* runs, and default_model is recomputed from new_config and the rescanned
\* registry: the configured default's stem if one is configured, else the
\* first registry entry, else None; whatever the state of the directory.
C19_UpdateConfigResets ==
    ret.op = "update_config" =>
        /\ active_proxy = 0 /\ active_model = NoName
        /\ Running = {}
        /\ default_model = IF cfgDefault # NoName THEN cfgDefault ELSE FirstName(models)

\* C20: the registry is replaced atomically by update_config: a concurrent
\* list_models or get_model sees the complete old or the complete new set of
\* entries; so model A, whose file is in the directory throughout, is in
\* every listing and is never reported unknown.
C20_RegistryAtomic ==
    [][\A t \in Threads :
          /\ ListModels(t) => \E e \in ret'.val : e.id = "A"
          /\ GetModel_Check(t, "A") => ret'.res # "ValueError"]_vars

\* C21: Proxy.shutdown() is idempotent and total: on a Proxy without a process
\* (never started, or already shut down) it returns at once, raising nothing
\* and changing nothing; and every return of shutdown() leaves the Proxy in
\* the same terminal state: no process handle, no IPC endpoint, is_alive()
\* false.
C21_ShutdownIdempotent ==
    [][\A t \in Threads :
          LET p == active_proxy IN
          /\ (pc[t] = "shutdown" /\ pc'[t] # "shutdown" /\ ~pprocess[p]) =>
                /\ pc'[t] = "sd_done"
                /\ ret' = [t |-> t, op |-> "shutdown", res |-> "no_process", val |-> NoName]
                /\ UNCHANGED <<supVars, dirVars, proxVars, workVars, nextId>>
          /\ (pc[t] \in {"shutdown", "sd_join1", "sd_join2"} /\ pc'[t] = "sd_done") =>
                /\ ~pprocess'[p] /\ ~pconn'[p]
                /\ ~(pprocess'[p] /\ wstate'[p] = "running")
                /\ wstate'[p] # "running"]_vars

\* C21 witness: shutdown() has returned from its second call on the one Proxy
\* ever constructed: the first call, inside a get_model that then failed, sent
\* SHUTDOWN and cleared the handles; this get_model("A") found the slot still
\* naming that Proxy and shut it down again
C21_Witness ==
    \E t \in Threads :
        /\ pc[t] = "sd_done" /\ cont[t] = "get_model" /\ arg[t] = "A" /\ mlock = t
        /\ active_model = "A" /\ active_proxy = 1
        /\ nextProxy = 2 /\ nextId = 3
        /\ ~pprocess[1] /\ ~pconn[1] /\ wstate[1] = "exited"

\* C22: Proxy.shutdown() escalates strictly in order: the SHUTDOWN request and
\* a join come first, with no signal sent; terminate() and a second join only
\* when the child is alive after the first join; kill() only when it is alive
\* after that. When shutdown() returns, by whichever path, the child is not
\* running and the Proxy's process handle and IPC endpoint are cleared,
\* whatever the worker was doing.
C22_ShutdownEscalates ==
    [][\A t \in Threads :
          LET p   == active_proxy
              sd  == {"shutdown", "sd_join1", "sd_join2"}
              how == ret'.res
          IN
          /\ (pc[t] # "sd_join1" /\ pc'[t] = "sd_join1") =>
                /\ pc[t] = "shutdown"
                /\ pprocess[p] /\ pconn[p] /\ wstate[p] = "running"
                /\ inbox'[p] = Append(inbox[p], Request(nextId, "SHUTDOWN"))
                /\ UNCHANGED <<wstate, pprocess, pconn>>
          /\ (pc[t] # "sd_join2" /\ pc'[t] = "sd_join2") =>
                pc[t] = "sd_join1" /\ wstate[p] = "running"
          /\ (pc[t] = "sd_join1" /\ pc'[t] # "sd_join1") =>
                IF wstate[p] = "running"
                THEN pc'[t] = "sd_join2" /\ UNCHANGED <<pprocess, pconn>>
                ELSE pc'[t] = "sd_done" /\ how = "graceful"
          /\ (pc[t] = "sd_join2" /\ pc'[t] # "sd_join2") =>
                /\ pc'[t] = "sd_done"
                /\ how = (IF wstate[p] = "running" THEN "killed" ELSE "terminated")
          /\ (pc[t] \in sd /\ pc'[t] = "sd_done") =>
                /\ ret'.op = "shutdown" /\ ret'.t = t
                /\ wstate'[p] # "running"
                /\ ~pprocess'[p] /\ ~pconn'[p]
                /\ how \in {"no_process", "dead"} => pc[t] = "shutdown" /\ wstate[p] # "running"
                /\ how \notin {"killed"} => UNCHANGED <<wstate, inbox>>
          /\ (pc[t] \notin sd) => pc'[t] \notin {"sd_join1", "sd_join2"}]_vars

\* C22 witness: shutdown(), called by unload_idle_models, has just returned
\* after kill(): SHUTDOWN and terminate() had not ended the child; the stream a
\* request handler started on that Proxy is still in flight
C22_Witness ==
    /\ ret.op = "shutdown" /\ ret.res = "killed"
    /\ active_proxy # 0 /\ wstate[active_proxy] = "exited"
    /\ ~pprocess[active_proxy] /\ ~pconn[active_proxy]
    /\ cont[ret.t] = "unload_idle_models"
    /\ \E u \in Threads :
          /\ cmd[u] = "GENERATE_STREAM" /\ pc[u] = "st_yield"
          /\ ref[u] = active_proxy /\ plock[active_proxy] = u

\* C23: the worker answers a LOAD it receives with a model loaded by
\* RESULT "already_loaded" and keeps the handle and the arguments it was made
\* with; with no model loaded it answers RESULT "loaded" with the handle set,
\* made from this request's payload, or ERROR with the handle still None. No
\* step of a worker replaces the arguments of a loaded model.
C23_LoadOnce ==
    [][\A p \in ProxyIds :
          /\ (Alive2(p) /\ Worker_Recv(p, {"LOAD"}) /\ inbox'[p] = Tail(inbox[p])) =>
                LET r == Head(inbox[p]) IN
                IF llm[p]
                THEN /\ Sent(p) = {Response(r.id, "RESULT", 0, "already_loaded")}
                     /\ llm'[p] /\ lparams'[p] = lparams[p]
                ELSE \/ /\ Sent(p) = {Response(r.id, "RESULT", 0, "loaded")}
                        /\ llm'[p] /\ lparams'[p] = LlamaArgs(r.payload)
                     \/ /\ \E m \in Sent(p) : m.type = "ERROR" /\ m.id = r.id
                        /\ ~llm'[p] /\ lparams'[p] = NoParams
          /\ (llm[p] /\ llm'[p]) => lparams'[p] = lparams[p]]_vars

\* C23 witness: the worker loaded model "A" for get_model, was then sent a
\* LOAD again, and has answered it "already_loaded": it still holds the model
\* made with the arguments of the first LOAD
C23_Witness ==
    \E p \in ProxyIds :
        /\ wstate[p] = "running" /\ llm[p]
        /\ lparams[p] = LlamaArgs(LoadPayload("A"))
        /\ outbox[p] # <<>>
        /\ outbox[p][Len(outbox[p])] = Response(nextId - 1, "RESULT", 0, "already_loaded")

\* C24: for every request of a non-streaming command (LOAD, GENERATE,
\* TOKENIZE, STATUS, HEARTBEAT, SHUTDOWN) the worker receives, it sends exactly
\* one response, a RESULT or an ERROR with the id of the request, and is done
\* with the request; GENERATE, GENERATE_STREAM and TOKENIZE received with no
\* model loaded get exactly one ERROR "Model not loaded"; STATUS and HEARTBEAT
\* get a RESULT with or without a model; and the worker sends nothing that
\* does not answer the request it is handling.
C24_OneResponse ==
    [][\A p \in ProxyIds :
          LET r == Head(inbox[p]) IN
          /\ (Alive2(p) /\ Worker_Recv(p, Commands) /\ inbox'[p] = Tail(inbox[p])) =>
                /\ r.cmd # "GENERATE_STREAM" =>
                      /\ \E m \in Sent(p) : m.id = r.id /\ m.type \in {"RESULT", "ERROR"}
                      /\ wpc'[p] = "recv"
                /\ (r.cmd \in {"GENERATE", "GENERATE_STREAM", "TOKENIZE"} /\ ~llm[p]) =>
                      /\ Sent(p) = {Response(r.id, "ERROR", 0, "Model not loaded")}
                      /\ wpc'[p] = "recv"
                /\ r.cmd \in {"STATUS", "HEARTBEAT"} =>
                      \E m \in Sent(p) : m.type = "RESULT"
          /\ Worker_Shutdown(p) => Sent(p) = {Response(r.id, "RESULT", 0, "shutdown")}
          /\ Len(outbox'[p]) <= Len(outbox[p]) + 1
          /\ (Len(outbox'[p]) > Len(outbox[p]) /\ wpc[p] = "recv") =>
                /\ Worker_Recv(p, Commands)
                /\ inbox'[p] = Tail(inbox[p]) \/ (r.cmd = "SHUTDOWN" /\ wstate'[p] = "exited")
                /\ \A m \in Sent(p) : m.id = r.id]_vars

\* C24 witness: a worker whose LOAD failed has answered a GENERATE or TOKENIZE
\* with ERROR "Model not loaded" and then a STATUS with its RESULT
C24_Witness ==
    \E p \in ProxyIds :
        /\ wstate[p] = "running" /\ ~llm[p] /\ wpc[p] = "recv" /\ inbox[p] = <<>>
        /\ Len(outbox[p]) >= 2
        /\ LET n == Len(outbox[p]) IN
              /\ outbox[p][n - 1] = Response(nextId - 2, "ERROR", 0, "Model not loaded")
              /\ outbox[p][n] = Response(nextId - 1, "RESULT", 0, "loaded: False")

\* a step of run() of the worker of p other than the handling of SHUTDOWN and
\* of end-of-stream
HandlesOther(p) ==
    \/ Worker_Load(p) \/ Worker_Generate(p) \/ Worker_Status(p)
    \/ Worker_StreamStart(p) \/ Worker_Pull(p) \/ Worker_Emit(p)

\* C25: the worker's command loop handles requests one at a time: it takes a
\* request from its pipe only in run()'s recv, the oldest first, and a request
\* waiting there can always be taken; it keeps running after a handler failed
\* (ERROR is sent and the worker is back in recv); it leaves the loop only by
\* handling SHUTDOWN, with the model handle released and RESULT "shutdown"
\* sent, or at end-of-stream; and a worker that has left handles and sends
\* nothing more.
C25_WorkerLoop ==
    /\ [](\A p \in ProxyIds :
             (wstate[p] = "running" /\ wpc[p] = "recv" /\ inbox[p] # <<>>) =>
                 ENABLED (HandlesOther(p) \/ Worker_Shutdown(p) \/ Worker_EOF(p)))
    /\ [][\A p \in ProxyIds :
             /\ (Alive2(p) /\ Len(inbox'[p]) < Len(inbox[p])) =>
                   wpc[p] = "recv" /\ inbox'[p] = Tail(inbox[p])
             /\ (Alive2(p) /\ wpc[p] # "recv") =>
                   \E k \in 0..1 : inbox[p] = SubSeq(inbox'[p], 1, Len(inbox'[p]) - k)
             /\ (\E m \in Sent(p) : m.type = "ERROR") =>
                   wstate'[p] = "running" /\ wpc'[p] = "recv"
             /\ HandlesOther(p) => wstate'[p] = "running"
             /\ Worker_Shutdown(p) =>
                   /\ Sent(p) = {Response(Head(inbox[p]).id, "RESULT", 0, "shutdown")}
                   /\ ~llm'[p] /\ wstate'[p] = "exited" /\ inbox'[p] = <<>>
             /\ Worker_EOF(p) =>
                   /\ Sent(p) = {} /\ wstate'[p] = "exited"
                   /\ inbox[p] = <<EOF>>
             /\ wstate[p] = "exited" =>
                   /\ wstate'[p] = "exited" /\ inbox'[p] = <<>>
                   /\ Len(outbox'[p]) <= Len(outbox[p])]_vars

\* C25 witness: a handler of a worker with a loaded model failed and was
\* answered with ERROR, and the worker has then handled the next request and
\* answered it with RESULT
C25_Witness ==
    \E p \in ProxyIds :
        /\ wstate[p] = "running" /\ llm[p] /\ wpc[p] = "recv"
        /\ Len(outbox[p]) >= 2
        /\ LET n == Len(outbox[p]) IN
              /\ outbox[p][n - 1] = Response(nextId - 2, "ERROR", 0, "exception")
              /\ outbox[p][n].id = nextId - 1 /\ outbox[p][n].type = "RESULT"

\* the value the configuration gives load key k for model M: that of
\* model_settings[M] when the key is there, else the global one of
\* model_manager, else the built-in default
Effective(M, k) ==
    LET own == Get(settings.ms, M, EmptyDict) IN
    IF k \in DOMAIN own THEN own[k]
    ELSE IF k \in DOMAIN settings.mm THEN settings.mm[k]
    ELSE WorkerDefault(k)

\* C26: the LOAD request a Proxy sends for its model M makes the worker load
\* the model's file with, for each of n_ctx, n_gpu_layers, n_threads,
\* override_tensor and offload_kqv, the value of model_settings[M] when the key
\* is present there and the global model_manager default otherwise; the
\* settings of another model have no part in it.
C26_LoadParameters ==
    \A p \in ProxyIds : \A i \in 1..Len(inbox[p]) :
        inbox[p][i].cmd = "LOAD" =>
            LET args == LlamaArgs(inbox[p][i].payload) IN
            /\ args["model_path"] = pname[p]
            /\ \A k \in LoadKeys : args[k] = Effective(pname[p], k)

\* C27: under fair scheduling of the idle reaper, an active Proxy that has
\* had no operation for longer than idle_timeout is eventually evicted: the
\* slot becomes empty and no registry entry is reported loaded (unless an
\* operation reaches the Proxy, or get_model replaces it, before the reaper
\* does); also when calls of unload_idle_models raised before.
C27_IdleEvicted ==
    \A p \in ProxyIds :
        (active_proxy = p /\ idle_time[p] > IdleTimeout)
            ~> \/ active_proxy = 0 /\ active_model = NoName
               \/ active_proxy = p /\ idle_time[p] <= IdleTimeout
               \/ active_proxy \notin {0, p}

\* C27 witness: the reaper has just evicted the Proxy of "A", loaded by the
\* only get_model: its child has exited and the slot is empty
C27_Witness ==
    /\ ret = [t |-> "t2", op |-> "unload_idle_models", res |-> "[name]", val |-> "A"]
    /\ active_proxy = 0 /\ active_model = NoName
    /\ nextProxy = 2 /\ wstate[1] = "exited"

\* C28: list_models reports an entry loaded iff it is the active model, so no
\* listing it returns reports more than one entry loaded.
C28_LoadedIffActive ==
    ret.op = "list_models" => Cardinality({e \in ret.val : e.loaded}) <= 1

\* C29: the Proxy a successful get_model(name) returns was created for the
\* resolved name, and its worker, while it runs, holds the loaded model.
C29_ReturnedProxyServes ==
    [][\A t \in Threads :
          (ret'.op = "get_model" /\ ret'.res = "ok" /\ ret'.t = t) =>
              /\ pname'[ref'[t]] = arg[t]
              /\ wstate'[ref'[t]] = "running" => llm'[ref'[t]]]_vars

\* C30: unload_idle_models does not shut a Proxy down while a generate,
\* generate_stream or tokenize call on it holds the Proxy mutex: when the idle
\* reaper's shutdown() of the active Proxy acts, no thread holds that mutex.
C30_NoEvictionInFlight ==
    [][\A t \in Threads :
          (pc[t] = "shutdown" /\ cont[t] = "unload_idle_models" /\ pc'[t] # "shutdown") =>
              plock[active_proxy] = NoThread]_vars

\* C31: supervisor operations and Proxy operations never deadlock: a thread
\* that holds the supervisor mutex can always take its next step, whoever holds
\* the Proxy mutex; a thread that holds the Proxy mutex is inside generate,
\* generate_stream or tokenize and calls no supervisor operation; and every
\* thread that waits for or holds the supervisor mutex eventually returns.
InSupervisor(t) == mlock = t \/ pc[t] = "gm_lock"

C31_NoDeadlock ==
    /\ [](\A t \in Threads : mlock = t => ENABLED SupervisorStep(t))
    /\ [](\A t \in Threads, p \in ProxyIds :
             plock[p] = t => pc[t] \in {"op_wait", "st_yield"})
    /\ \A t \in Threads : InSupervisor(t) ~> ~InSupervisor(t)

\* thread "t2" is inside shutdown() of the active Proxy while thread "t1"
\* holds that Proxy's mutex in a stream suspended at a yield
C31_Witness ==
    /\ mlock = "t2" /\ pc["t2"] = "sd_join1"
    /\ active_proxy # 0 /\ plock[active_proxy] = "t1" /\ pc["t1"] = "st_yield"

\* C32: a generate_stream in flight on a Proxy that the supervisor has shut
\* down ends, on its next turn, normally or with the "worker crashed" error,
\* and releases the Proxy mutex.
C32_StreamSurvivesShutdown ==
    [][\A t \in Threads :
          (/\ cmd[t] = "GENERATE_STREAM" /\ pc[t] \in {"op_wait", "st_yield"}
           /\ ~pprocess[ref[t]]
           /\ Op_Recv(t)) =>
              /\ ret'.t = t /\ ret'.res \in {"ok", "WorkerCrashed"}
              /\ plock'[ref[t]] = NoThread]_vars

\* C33: when a concurrent update_config has removed the name after get_model
\* passed its registry check, get_model fails with the unknown-model error
\* (ValueError) and installs no Proxy for the removed name in the ActiveSlot.
C33_RemovedNameUnknown ==
    [][\A t \in Threads :
          (/\ pc[t] = "sd_done" /\ cont[t] = "get_model"
           /\ arg[t] \notin models
           /\ GetModel_Start(t)) =>
              /\ ret' = [t |-> t, op |-> "get_model", res |-> "ValueError", val |-> NoName]
              /\ active_proxy' = 0 \/ pname'[active_proxy'] # arg[t]]_vars

====
